---- MODULE Spec2Model ----
(***************************************************************************)
(* Inline graphics of the terminal grid: the graphics store                *)
(* (alacritty_terminal/src/graphics/mod.rs), the prepare phase of the      *)
(* renderer (alacritty/src/renderer/graphics/prepare.rs and mod.rs) and    *)
(* the draw phase that executes the emitted command batches.               *)
(*                                                                         *)
(* Conventions.                                                            *)
(*  - A GraphicsLine is an integer.  The attachments BTreeMap is a         *)
(*    function whose DOMAIN is the set of keys; BTreeMap order is the      *)
(*    order of the integers.                                               *)
(*  - A pixel buffer (Vec<u8>) is modelled by its length in bytes.         *)
(*  - cell_width and cell_height are f32 in the source; they hold whole    *)
(*    numbers >= 1, so f32 arithmetic is integer arithmetic here and       *)
(*    `x as usize` of a negative f32 saturates to 0.                       *)
(*  - usize values that wrapped below zero (release build) are encoded as  *)
(*    the negative integer v, standing for 2^64 + v; ULe/UGe compare such  *)
(*    encoded values the way the machine compares the usize values.        *)
(*  - glGenTextures returns a name that is in use nowhere; it is modelled  *)
(*    by a counter, as the generator `10..` of the repository's test.      *)
(***************************************************************************)
EXTENDS Integers, Sequences, FiniteSets, TLC

\* ------------------------------------------------------------------------
\* Program constants.

\* alacritty_terminal/src/graphics/mod.rs:20
ROWS_PER_GRAPHIC == 1000

\* alacritty_terminal/src/graphics/mod.rs:23
MAX_GRAPHIC_DIMENSIONS == 4096

\* ------------------------------------------------------------------------
\* Bounds of the model.

\* Graphics read from the PTY in one run.
MaxGraphics == 2

\* Largest scroll anchor (base_position) reached by move_base_position.
MaxBase == 1

\* Graphics read from the PTY in one run of SpecThree.
MaxThree == 3

\* Largest scroll anchor in SpecTall: the viewport has scrolled to the last
\* lines of a graphic of the maximum height.
MaxTallBase == 1002

\* SpecScroll: base_position stays at or below MaxScrollBase.
MaxScrollBase == 3

\* SpecAttach: at most MaxAttachGraphics graphics are read from the PTY.
MaxAttachGraphics == 3

\* First name returned by the texture generator (0 is GL's "no texture").
FirstTexture == 1

\* The first name of the texture counter of the regression test.
RegressionFirstTexture == 10

\* ------------------------------------------------------------------------
\* Small helpers.

Min(a, b) == IF a <= b THEN a ELSE b

\* A faulty Max: the first argument, whatever the second.
Max_first(a, b) == a

Max(a, b) == IF a >= b THEN a ELSE b

\* A faulty CeilDiv: the quotient is rounded down.
CeilDiv_floor(a, b) == a \div b

\* f32::ceil(a as f32 / b), for a >= 0 and b >= 1.
CeilDiv(a, b) == (a + b - 1) \div b

\* `x as usize` for an f32 holding the whole number x: saturates at 0.
AsUsize(x) == IF x < 0 THEN 0 ELSE x

\* usize comparison on encoded values (a negative v stands for 2^64 + v).
ULe(a, b) == IF (a < 0) = (b < 0) THEN a <= b ELSE b < 0

UGe(a, b) == ULe(b, a)

\* The elements of a finite set of integers in ascending order
\* (iteration order of BTreeMap::range).
RECURSIVE SortedSeq(_)
SortedSeq(S) ==
    IF S = {} THEN <<>>
    ELSE LET m == CHOOSE x \in S : \A y \in S : x <= y
         IN  <<m>> \o SortedSeq(S \ {m})

Range(s) == {s[i] : i \in DOMAIN s}

\* ColorType::bytes_per_pixel
bytes_per_pixel(color_type) == IF color_type = "RGB" THEN 3 ELSE 4

\* GraphicData::with_size: a graphic whose pixel buffer has the length its
\* dimensions ask for.
with_size(color_type, column, line, width, height) ==
    [column |-> column, line |-> line, width |-> width, height |-> height,
     color_type |-> color_type,
     pixels |-> width * height * bytes_per_pixel(color_type)]

\* SizeInfo, as far as the graphics code reads it.
SizeInfo(cell_width, cell_height, screen_lines) ==
    [cell_width |-> cell_width, cell_height |-> cell_height,
     screen_lines |-> screen_lines]

\* ------------------------------------------------------------------------
\* Graphics commands (enum GraphicsCommand).

DeleteTextures(textures) == [kind |-> "DeleteTextures", textures |-> textures]

InitTexture(texture, data) == [kind |-> "InitTexture", texture |-> texture, data |-> data]

ResizeTexture(target_texture, source, source_offset, width, height) ==
    [kind |-> "ResizeTexture", target_texture |-> target_texture, source |-> source,
     source_offset |-> source_offset, width |-> width, height |-> height]

BlitGraphic(texture, offset_x, offset_y, width, height, color_type, pixels) ==
    [kind |-> "BlitGraphic", texture |-> texture, offset_x |-> offset_x,
     offset_y |-> offset_y, width |-> width, height |-> height,
     color_type |-> color_type, pixels |-> pixels]

Render(data) == [kind |-> "Render", data |-> data]

\* struct GraphicItem
GraphicItem(texture, column, bottom, cell_height, width, height) ==
    [texture |-> texture, column |-> column, bottom |-> bottom,
     cell_height |-> cell_height, width |-> width, height |-> height]

\* ------------------------------------------------------------------------
\* Graphics::attach.  BTreeMap::insert replaces a previous value; the
\* debug_assert! panics when there was one and debug assertions are compiled
\* in.  The result is the new map and whether the call panicked.

MapInsert(att, key, item) ==
    [k \in DOMAIN att \cup {key} |-> IF k = key THEN item ELSE att[k]]

MapRemove(att, key) == [k \in DOMAIN att \ {key} |-> att[k]]

GraphicsAttach(att, top, item, debug) ==
    [attachments |-> MapInsert(att, top, item),
     panicked |-> debug /\ top \in DOMAIN att]

\* ------------------------------------------------------------------------
\* attach_graphics.  The running state of one call is the record
\*   att     graphics.attachments
\*   cmds    the commands vector
\*   origin  for each command, the index of the pending graphic it was
\*           emitted for (history, not read by the code)
\*   next    the next name of the texture generator
\*   ng      new_graphic
\*   status  "run", "ret" (returned at line 218) or "panic"

\* A faulty new_graphic_bottom: the height in lines is rounded down.
new_graphic_bottom_floor(new_graphic, size_info) ==
    new_graphic.line + (new_graphic.height \div size_info.cell_height) - 1

\* Last line to contain the new graphic (lines 64-66).
new_graphic_bottom(new_graphic, size_info) ==
    new_graphic.line + CeilDiv(new_graphic.height, size_info.cell_height) - 1

\* A faulty surface_lines: a graphic that starts right below the new graphic
\* counts as overlapping.
surface_lines_adjacent(att, new_graphic, size_info) ==
    LET bottom == new_graphic_bottom(new_graphic, size_info) + 1
    IN  SortedSeq({key \in DOMAIN att :
            /\ new_graphic.line - ROWS_PER_GRAPHIC <= key
            /\ key <= bottom
            /\ key <= bottom /\ new_graphic.line <= att[key].bottom})

\* Existing graphics that overlap the new graphic (lines 69-74).
surface_lines(att, new_graphic, size_info) ==
    LET bottom == new_graphic_bottom(new_graphic, size_info)
    IN  SortedSeq({key \in DOMAIN att :
            /\ new_graphic.line - ROWS_PER_GRAPHIC <= key
            /\ key <= bottom
            /\ key <= bottom /\ new_graphic.line <= att[key].bottom})

Panic(st) == [st EXCEPT !.status = "panic"]

\* Lines 80-116: split the upper region of the new graphic.
UpperSplit(st, surface_line, size_info, debug, img) ==
    LET ng          == st.ng
        upper_lines == surface_line - ng.line
        top         == ng.line
        height      == upper_lines * size_info.cell_height
        at          == height * ng.width * bytes_per_pixel(ng.color_type)
        texture     == st.next
        upper_data  == [column |-> ng.column, line |-> top, width |-> ng.width,
                        height |-> height, color_type |-> ng.color_type,
                        pixels |-> at]
        upper_item  == GraphicItem(texture, upper_data.column, top + upper_lines - 1,
                                   size_info.cell_height, upper_data.width,
                                   upper_data.height)
        attached    == GraphicsAttach(st.att, top, upper_item, debug)
    IN  IF at > ng.pixels
        THEN Panic(st)                          \* Vec::split_off: at > len
        ELSE IF ~ULe(height, ng.height) /\ debug
        THEN Panic(st)                          \* subtraction overflow
        ELSE IF attached.panicked
        THEN Panic(st)                          \* debug_assert in attach
        ELSE [st EXCEPT
                !.ng     = [ng EXCEPT !.pixels = ng.pixels - at,
                                      !.height = ng.height - height,
                                      !.line   = ng.line + upper_lines],
                !.next   = texture + 1,
                !.att    = attached.attachments,
                !.cmds   = Append(st.cmds, InitTexture(texture, upper_data)),
                !.origin = Append(st.origin, img)]

\* Faulty variants of need_resize: the height of the surface is not looked
\* at; every surface is resized.
need_resize_no_height(surface, new_graphic, size_info) ==
    LET cw                == size_info.cell_width
        surface_right     == cw * surface.column + surface.width
        new_graphic_right == cw * new_graphic.column + new_graphic.width
    IN  \/ surface.column > new_graphic.column
        \/ surface_right < new_graphic_right

need_resize_always(surface, new_graphic, size_info) == TRUE

\* Lines 142-144.
need_resize(surface, new_graphic, size_info) ==
    LET cw                == size_info.cell_width
        surface_right     == cw * surface.column + surface.width
        new_graphic_right == cw * new_graphic.column + new_graphic.width
    IN  \/ surface.column > new_graphic.column
        \/ surface_right < new_graphic_right
        \/ surface.height % size_info.cell_height # 0

\* A faulty blit_texture: the pixels always go to the texture of the
\* surface, also when a resize has replaced it.
blit_texture_stale(resize, generated, surface) == surface.texture

\* The texture that receives the pixels (lines 148 and 183): the new
\* texture after a resize, the texture of the surface otherwise.
blit_texture(resize, generated, surface) ==
    IF resize THEN generated ELSE surface.texture

\* Lines 118-219: copy the overlapping region to the existing texture.
BlitSurface(st, surface_line, size_info, debug, img) ==
    IF surface_line \notin DOMAIN st.att THEN Panic(st) ELSE   \* map index
    LET ng                == st.ng
        cw                == size_info.cell_width
        ch                == size_info.cell_height
        surface           == st.att[surface_line]
        surface_right     == cw * surface.column + surface.width
        new_graphic_right == cw * ng.column + ng.width
        surface_bottom    == surface.bottom
        resize            == need_resize(surface, ng, size_info)
        \* need_resize branch (lines 147-181)
        resize_column     == Min(surface.column, ng.column)
        resize_right      == Max(surface_right, new_graphic_right)
        source_offset     == (surface.column - resize_column) * cw
        resize_width      == resize_right - cw * resize_column
        resized_height    == AsUsize((surface_bottom + 1 - surface_line) * ch)
        new_surface       == GraphicItem(st.next, resize_column, surface.bottom, ch,
                                         resize_width, resized_height)
        reattached        == GraphicsAttach(MapRemove(st.att, surface_line),
                                            surface_line, new_surface, debug)
        \* both branches
        surface_height    == IF resize THEN resized_height ELSE surface.height
        blit_tex          == blit_texture(resize, st.next, surface)
        blit_offset_x     == IF resize THEN (ng.column - resize_column) * cw
                             ELSE AsUsize((ng.column - surface.column) * cw)
        blit_offset_y     == AsUsize((ng.line - surface_line) * ch)
        att1              == IF resize THEN reattached.attachments ELSE st.att
        next1             == IF resize THEN st.next + 1 ELSE st.next
        cmds1             == IF resize
                             THEN Append(st.cmds,
                                     ResizeTexture(blit_tex, surface, source_offset,
                                                   resize_width, resized_height))
                             ELSE st.cmds
        origin1           == IF resize THEN Append(st.origin, img) ELSE st.origin
        \* lines 187-205
        underflow         == ~ULe(blit_offset_y, surface_height)
        room              == surface_height - blit_offset_y
        whole             == UGe(room, ng.height)
        blit_height       == IF whole THEN ng.height ELSE room
        at                == blit_height * ng.width * bytes_per_pixel(ng.color_type)
        pixels            == IF whole THEN ng.pixels ELSE at
        ng1               == IF whole
                             THEN [ng EXCEPT !.height = 0, !.pixels = 0]
                             ELSE [ng EXCEPT !.height = ng.height - room,
                                             !.line   = surface_bottom + 1,
                                             !.pixels = ng.pixels - at]
    IN  IF underflow /\ debug
        THEN Panic(st)                          \* subtraction overflow
        ELSE IF ~whole /\ at > ng.pixels
        THEN Panic(st)                          \* Vec::split_off: at > len
        ELSE [st EXCEPT
                !.att    = att1,
                !.next   = next1,
                !.ng     = ng1,
                !.cmds   = Append(cmds1,
                              BlitGraphic(blit_tex, blit_offset_x, blit_offset_y,
                                          ng.width, blit_height, ng.color_type, pixels)),
                !.origin = Append(origin1, img),
                !.status = IF ng1.height = 0 THEN "ret" ELSE "run"]

\* A faulty iteration: the lines above the surface are not split off.
AttachSurface_no_split(st, surface_line, size_info, debug, img) ==
    IF st.status # "run" THEN st
    ELSE BlitSurface(st, surface_line, size_info, debug, img)

\* One iteration of the loop over surface_lines (lines 76-220).
AttachSurface(st, surface_line, size_info, debug, img) ==
    IF st.status # "run" THEN st
    ELSE LET split == IF surface_line - st.ng.line > 0
                      THEN UpperSplit(st, surface_line, size_info, debug, img)
                      ELSE st
         IN  IF split.status # "run" THEN split
             ELSE BlitSurface(split, surface_line, size_info, debug, img)

RECURSIVE AttachSurfaces(_, _, _, _, _)
AttachSurfaces(st, lines, size_info, debug, img) ==
    IF lines = <<>> THEN st
    ELSE AttachSurfaces(AttachSurface(st, Head(lines), size_info, debug, img),
                        Tail(lines), size_info, debug, img)

\* A faulty remainder: the pixel rows left below the last surface are lost
\* once a piece of the graphic has been emitted.
AttachRemainder_dropped(st, bottom, size_info, debug, img) ==
    IF st.status # "run" \/ st.ng.height = 0 \/ img \in Range(st.origin) THEN st
    ELSE LET texture       == st.next
             graphics_item == GraphicItem(texture, st.ng.column, bottom,
                                          size_info.cell_height, st.ng.width,
                                          st.ng.height)
             attached      == GraphicsAttach(st.att, st.ng.line, graphics_item, debug)
         IN  IF attached.panicked THEN Panic(st)
             ELSE [st EXCEPT
                     !.att    = attached.attachments,
                     !.next   = texture + 1,
                     !.cmds   = Append(st.cmds, InitTexture(texture, st.ng)),
                     !.origin = Append(st.origin, img)]

\* Lines 222-239: what is left of the new graphic overlaps nothing.
AttachRemainder(st, bottom, size_info, debug, img) ==
    IF st.status # "run" \/ st.ng.height = 0 THEN st
    ELSE LET texture       == st.next
             graphics_item == GraphicItem(texture, st.ng.column, bottom,
                                          size_info.cell_height, st.ng.width,
                                          st.ng.height)
             attached      == GraphicsAttach(st.att, st.ng.line, graphics_item, debug)
         IN  IF attached.panicked THEN Panic(st)
             ELSE [st EXCEPT
                     !.att    = attached.attachments,
                     !.next   = texture + 1,
                     !.cmds   = Append(st.cmds, InitTexture(texture, st.ng)),
                     !.origin = Append(st.origin, img)]

\* attach_graphics(graphics, size_info, commands, new_graphic, texture_generator)
attach_graphics(st0, size_info, new_graphic, debug, img) ==
    LET st     == [st0 EXCEPT !.ng = new_graphic, !.status = "run"]
        bottom == new_graphic_bottom(new_graphic, size_info)
        lines  == surface_lines(st.att, new_graphic, size_info)
        looped == AttachSurfaces(st, lines, size_info, debug, img)
    IN  IF st0.status = "panic" THEN st0
        ELSE AttachRemainder(looped, bottom, size_info, debug, img)

\* ------------------------------------------------------------------------
\* The graphics store (struct Graphics<GraphicItem>) and what is around it.

VARIABLES
    base_position,          \* Graphics::base_position
    attachments,            \* Graphics::attachments: GraphicsLine -> GraphicItem
    pending,                \* Graphics::pending
    enqueued,               \* number of graphics read from the PTY so far
    removed,                \* Graphics::removed
    sixel_shared_palette,   \* Graphics::sixel_shared_palette: TRUE is Some(..)
    next_texture,           \* the next name glGenTextures returns
    panicked,               \* a panic unwound the renderer: the program is over
    lock,                   \* the lock on Term: "free" or "renderer"
    pc,                     \* the renderer: "idle", "locked", "prepared", "draw"
    result,                 \* the value of the last prepare() call
    size_info,              \* arguments of the last prepare() call
    display_offset,
    gl_textures,            \* texture names that hold an image in the GPU
    gl_released,            \* texture names the GPU was told to delete
    gl_fault,               \* a command used a name with no image, or deleted one twice
    locked_gl_calls,        \* backend calls made while the renderer held the lock
    prepared_attachments,   \* the attachments as the previous prepare() left them
    last_op,                \* the operation that produced this state (history);
                            \* "prepare_unchanged" is a prepare() that found both
                            \* queues empty and the attachments and its arguments
                            \* as the previous prepare() left them
    last_args               \* the arguments of that operation (history): the
                            \* range of clear_range, <<positions, history_size>>
                            \* of move_base_position, << >> otherwise

vars == <<base_position, attachments, pending, enqueued, removed, sixel_shared_palette,
          next_texture, panicked, lock, pc, result, size_info,
          display_offset, gl_textures, gl_released, gl_fault, locked_gl_calls,
          prepared_attachments, last_op, last_args>>

store_vars == <<base_position, attachments, pending, enqueued, removed, sixel_shared_palette>>

gl_vars == <<gl_textures, gl_released, gl_fault>>

\* Option::None / Option::Some(commands) returned by prepare().  `origin`
\* tells, for each command, where it comes from: 0 for the removed queue,
\* the index of a pending graphic, or the number of pending graphics plus one
\* for the Render command (history, not part of the value).
None == [some |-> FALSE, commands |-> << >>, origin |-> << >>]

Some(commands, origin) == [some |-> TRUE, commands |-> commands, origin |-> origin]

\* impl Default for Graphics
GraphicsDefault ==
    /\ base_position = 0
    /\ attachments = << >>
    /\ pending = << >>
    /\ removed = << >>
    /\ sixel_shared_palette = FALSE

\* Keys of the attachments in ascending order.
Keys(att) == SortedSeq(DOMAIN att)

\* GraphicsLine::new
GraphicsLine(base, line) == base + line

\* A faulty remove_attachments: the items leave the map and are dropped
\* instead of being pushed to `removed`.
remove_attachments_dropped(att, rem, range) ==
    [attachments |-> [k \in DOMAIN att \ range |-> att[k]],
     removed     |-> rem]

\* A faulty remove_attachments: the items are pushed to `removed` and stay
\* in the map.
remove_attachments_kept(att, rem, range) ==
    LET keys == SortedSeq(DOMAIN att \cap range)
    IN  [attachments |-> att,
         removed     |-> rem \o [i \in 1..Len(keys) |-> att[keys[i]]]]

\* Graphics::remove_attachments for the keys of `range` (a set of lines):
\* the items leave the map in key order and are pushed to `removed`.
remove_attachments(att, rem, range) ==
    LET keys == SortedSeq(DOMAIN att \cap range)
    IN  [attachments |-> [k \in DOMAIN att \ range |-> att[k]],
         removed     |-> rem \o [i \in 1..Len(keys) |-> att[keys[i]]]]

\* A faulty visible_range: the top of the range ignores display_offset.
visible_range_no_offset(base, screen_lines, offset) ==
    [top    |-> base - ROWS_PER_GRAPHIC,
     bottom |-> (base + screen_lines) - offset]

\* Graphics::visible_range, as the pair of its inclusive ends.
visible_range(base, screen_lines, offset) ==
    [top    |-> base - ROWS_PER_GRAPHIC - offset,
     bottom |-> (base + screen_lines) - offset]

\* prepare::delete
delete(items) == DeleteTextures([i \in 1..Len(items) |-> items[i].texture])

\* The six vertices (two triangles) of one graphic (prepare.rs lines 268-284).
Sides == <<"TopLeft", "TopRight", "BottomLeft", "TopRight", "BottomRight", "BottomLeft">>

QuadVertices(graphics_line, graphics_item) ==
    [i \in 1..6 |->
        [texture_id |-> graphics_item.texture, sides |-> Sides[i],
         column |-> graphics_item.column, graphics_line |-> graphics_line,
         height |-> graphics_item.height, width |-> graphics_item.width,
         base_cell_height |-> graphics_item.cell_height]]

RECURSIVE Flatten(_)
Flatten(ss) == IF ss = << >> THEN << >> ELSE Head(ss) \o Flatten(Tail(ss))

\* A faulty render_commands: the bottom of a graphic is not compared with
\* the top of the display.
render_commands_no_bottom(att, base, si, offset) ==
    LET range       == visible_range(base, si.screen_lines, offset)
        lines       == SortedSeq({k \in DOMAIN att :
                          range.top <= k /\ k <= range.bottom})
        vertices    == Flatten([i \in 1..Len(lines) |->
                                   QuadVertices(lines[i], att[lines[i]])])
    IN  IF vertices # << >>
        THEN << Render([vertices |-> vertices,
                        graphics_line_offset |-> base - offset,
                        cell_width |-> si.cell_width,
                        cell_height |-> si.cell_height]) >>
        ELSE << >>

\* prepare::render_commands: the commands it pushes (none or one Render).
render_commands(att, base, si, offset) ==
    LET range       == visible_range(base, si.screen_lines, offset)
        display_top == GraphicsLine(base, 0) - offset
        lines       == SortedSeq({k \in DOMAIN att :
                          /\ range.top <= k /\ k <= range.bottom
                          /\ ~(display_top > att[k].bottom)})
        vertices    == Flatten([i \in 1..Len(lines) |->
                                   QuadVertices(lines[i], att[lines[i]])])
    IN  IF vertices # << >>
        THEN << Render([vertices |-> vertices,
                        graphics_line_offset |-> base - offset,
                        cell_width |-> si.cell_width,
                        cell_height |-> si.cell_height]) >>
        ELSE << >>

\* The loop of prepare() over the pending graphics (mod.rs lines 341-350).
RECURSIVE AttachPending(_, _, _, _, _)
AttachPending(st, datas, i, si, debug) ==
    IF i > Len(datas) THEN st
    ELSE AttachPending(attach_graphics(st, si, datas[i], debug, i), datas, i + 1, si, debug)

\* GraphicsRenderer::prepare on the store (att, pend, rem, base).  The
\* result is the value it returns, the store it leaves, the next name of the
\* texture generator and whether it panicked.

\* Lines 324-331: "If there are no graphics in the grid, return as soon as
\* possible."
prepare_returns_early(att, pend, rem) ==
    LET attachments_is_empty == att = << >>
        pending_is_empty     == pend = << >>
        removed_is_empty     == rem = << >>
    IN  attachments_is_empty /\ pending_is_empty /\ removed_is_empty

prepare_none(att, pend, rem, next) ==
    [value |-> None, attachments |-> att, pending |-> pend, removed |-> rem,
     next |-> next, panicked |-> FALSE]

\* Lines 333-359.
prepare_some(att, pend, rem, base, next, offset, si, debug) ==
    LET removed_is_empty == rem = << >>
        deleted == IF ~removed_is_empty THEN << delete(rem) >> ELSE << >>
        st0     == [att |-> att, cmds |-> deleted,
                    origin |-> [i \in 1..Len(deleted) |-> 0],
                    next |-> next, ng |-> << >>, status |-> "run"]
        st      == AttachPending(st0, pend, 1, si, debug)
        shown   == IF st.att # << >>
                   THEN render_commands(st.att, base, si, offset)
                   ELSE << >>
    IN  [value |-> Some(st.cmds \o shown,
                        st.origin \o [i \in 1..Len(shown) |-> Len(pend) + 1]),
         attachments |-> st.att, pending |-> << >>, removed |-> << >>,
         next |-> st.next, panicked |-> st.status = "panic"]

\* Faulty variants of prepare.
\* The removed queue is read to build DeleteTextures but not taken.
prepare_keeps_removed(att, pend, rem, base, next, offset, si, debug) ==
    IF prepare_returns_early(att, pend, rem)
    THEN prepare_none(att, pend, rem, next)
    ELSE [prepare_some(att, pend, rem, base, next, offset, si, debug)
             EXCEPT !.removed = rem]

\* The Render command is pushed before the commands of the attachments.
prepare_render_first(att, pend, rem, base, next, offset, si, debug) ==
    IF prepare_returns_early(att, pend, rem)
    THEN prepare_none(att, pend, rem, next)
    ELSE LET r == prepare_some(att, pend, rem, base, next, offset, si, debug)
             c == r.value.commands
             o == r.value.origin
             n == Len(c)
         IN  IF n > 0 /\ c[n].kind = "Render"
             THEN [r EXCEPT !.value = Some(<< c[n] >> \o SubSeq(c, 1, n - 1),
                                           << o[n] >> \o SubSeq(o, 1, n - 1))]
             ELSE r

\* The early return ignores the removed queue.
prepare_ignores_removed(att, pend, rem, base, next, offset, si, debug) ==
    IF att = << >> /\ pend = << >>
    THEN prepare_none(att, pend, rem, next)
    ELSE prepare_some(att, pend, rem, base, next, offset, si, debug)

\* The early return ignores the attachments: None whenever both queues are
\* empty.
prepare_none_when_idle(att, pend, rem, base, next, offset, si, debug) ==
    IF pend = << >> /\ rem = << >>
    THEN prepare_none(att, pend, rem, next)
    ELSE prepare_some(att, pend, rem, base, next, offset, si, debug)

\* The pending queue is taken and dropped: no graphic is attached.
prepare_drops_pending(att, pend, rem, base, next, offset, si, debug) ==
    IF prepare_returns_early(att, pend, rem)
    THEN prepare_none(att, pend, rem, next)
    ELSE prepare_some(att, << >>, rem, base, next, offset, si, debug)

prepare(att, pend, rem, base, next, offset, si, debug) ==
    IF prepare_returns_early(att, pend, rem)
    THEN prepare_none(att, pend, rem, next)
    ELSE prepare_some(att, pend, rem, base, next, offset, si, debug)

\* A faulty prepare that uploads the pixels of a new texture itself.
prepare_gl_calls_upload(next_before, next_after) ==
    IF next_after # next_before THEN {"glGenTextures", "glTexImage2D"} ELSE {}

\* The OpenGL calls prepare() makes itself (lines 343-348): glGenTextures,
\* when it needed a texture name.
prepare_gl_calls(next_before, next_after) ==
    IF next_after # next_before THEN {"glGenTextures"} ELSE {}

\* ------------------------------------------------------------------------
\* The draw phase.  draw.rs executes one OpenGL call sequence per command;
\* what is kept of it is which texture names hold an image.

gl0 == [textures |-> {}, released |-> {}, fault |-> FALSE]

Use(gl, t) == [gl EXCEPT !.fault = gl.fault \/ t \notin gl.textures]

Release(gl, t) ==
    [gl EXCEPT !.fault = gl.fault \/ t \in gl.released,
               !.textures = gl.textures \ {t},
               !.released = gl.released \cup {t}]

RECURSIVE ReleaseAll(_, _)
ReleaseAll(gl, ts) ==
    IF ts = << >> THEN gl ELSE ReleaseAll(Release(gl, Head(ts)), Tail(ts))

RECURSIVE UseAll(_, _)
UseAll(gl, ts) ==
    IF ts = << >> THEN gl ELSE UseAll(Use(gl, Head(ts)), Tail(ts))

RunCommand(gl, command) ==
    CASE command.kind = "DeleteTextures" ->
            ReleaseAll(gl, command.textures)
      [] command.kind = "InitTexture" ->
            [gl EXCEPT !.textures = gl.textures \cup {command.texture}]
      [] command.kind = "ResizeTexture" ->
            LET used  == Use(gl, command.source.texture)
                added == [used EXCEPT !.textures = used.textures \cup {command.target_texture}]
            IN  Release(added, command.source.texture)
      [] command.kind = "BlitGraphic" ->
            Use(gl, command.texture)
      [] command.kind = "Render" ->
            UseAll(gl, [i \in DOMAIN command.data.vertices |->
                           command.data.vertices[i].texture_id])

\* GraphicsRenderer::draw: the commands in order.
RECURSIVE draw(_, _)
draw(gl, commands) ==
    IF commands = << >> THEN gl
    ELSE draw(RunCommand(gl, Head(commands)), Tail(commands))

\* ------------------------------------------------------------------------
\* Operations.  The PTY reader thread changes the store while it holds the
\* lock on Term; the renderer locks, runs prepare(), unlocks and then runs
\* draw() on the commands.

renderer_vars == <<next_texture, lock, pc, result, size_info, display_offset,
                   gl_textures, gl_released, gl_fault, locked_gl_calls,
                   prepared_attachments>>

\* The reader thread got the lock (it is released at the end of the step).
ReaderLocked == ~panicked /\ lock = "free"

\* A graphic read from the PTY is pushed to `pending`; g.line is the line of
\* the viewport where the cursor is.
Enqueue(Graphics, max_graphics) ==
    /\ ReaderLocked
    /\ enqueued < max_graphics
    /\ enqueued' = enqueued + 1
    /\ \E g \in Graphics :
          pending' = Append(pending,
                        with_size(g.color_type, g.column,
                                  GraphicsLine(base_position, g.line),
                                  g.width, g.height))
    /\ last_op' = "enqueue"
    /\ last_args' = << >>
    /\ UNCHANGED <<base_position, attachments, removed, sixel_shared_palette, panicked>>
    /\ UNCHANGED renderer_vars

\* The Sixel parser stores the shared palette.
SetSharedPalette ==
    /\ ReaderLocked
    /\ ~sixel_shared_palette
    /\ sixel_shared_palette' = TRUE
    /\ last_op' = "palette"
    /\ last_args' = << >>
    /\ UNCHANGED <<base_position, attachments, pending, removed, panicked>>
    /\ UNCHANGED renderer_vars
    /\ UNCHANGED enqueued

\* A faulty clear: the pending queue and the base position survive.
Clear_keeps_pending ==
    /\ ReaderLocked
    /\ LET keys == Keys(attachments)
       IN  removed' = removed \o [i \in 1..Len(keys) |-> attachments[keys[i]]]
    /\ attachments' = << >>
    /\ sixel_shared_palette' = FALSE
    /\ last_op' = "clear"
    /\ last_args' = << >>
    /\ UNCHANGED <<pending, base_position>>
    /\ UNCHANGED panicked
    /\ UNCHANGED renderer_vars
    /\ UNCHANGED enqueued

\* Graphics::clear
Clear ==
    /\ ReaderLocked
    /\ LET keys == Keys(attachments)
       IN  removed' = removed \o [i \in 1..Len(keys) |-> attachments[keys[i]]]
    /\ attachments' = << >>
    /\ pending' = << >>
    /\ sixel_shared_palette' = FALSE
    /\ base_position' = 0
    /\ last_op' = "clear"
    /\ last_args' = << >>
    /\ UNCHANGED panicked
    /\ UNCHANGED renderer_vars
    /\ UNCHANGED enqueued

\* Graphics::clear_range, for the inclusive range lo..=hi of viewport lines.
ClearRange(Ranges) ==
    /\ ReaderLocked
    /\ \E range \in Ranges :
          LET lines == {GraphicsLine(base_position, l) : l \in range[1]..range[2]}
              after == IF attachments = << >>
                       THEN [attachments |-> attachments, removed |-> removed]
                       ELSE remove_attachments(attachments, removed, lines)
          IN  /\ attachments' = after.attachments
              /\ removed' = after.removed
              /\ last_args' = range
    /\ last_op' = "clear_range"
    /\ UNCHANGED <<base_position, pending, sixel_shared_palette, panicked>>
    /\ UNCHANGED renderer_vars
    /\ UNCHANGED enqueued

\* Graphics::move_base_position
MoveBasePosition(Positions, HistorySizes, max_base) ==
    /\ ReaderLocked
    /\ \E positions \in Positions, history_size \in HistorySizes :
          LET base  == base_position + positions
              limit == base - history_size
              after == IF history_size > 0 /\ attachments # << >>
                       THEN remove_attachments(attachments, removed,
                                               {k \in DOMAIN attachments : k < limit})
                       ELSE [attachments |-> attachments, removed |-> removed]
          IN  /\ base <= max_base
              /\ base_position' = base
              /\ attachments' = after.attachments
              /\ removed' = after.removed
              /\ last_args' = <<positions, history_size>>
    /\ last_op' = "move_base_position"
    /\ UNCHANGED <<pending, sixel_shared_palette, panicked>>
    /\ UNCHANGED renderer_vars
    /\ UNCHANGED enqueued

\* The renderer takes the lock on Term.
RendererLock ==
    /\ ~panicked
    /\ pc = "idle"
    /\ lock = "free"
    /\ lock' = "renderer"
    /\ pc' = "locked"
    /\ last_op' = "lock"
    /\ last_args' = << >>
    /\ UNCHANGED store_vars
    /\ UNCHANGED <<next_texture, panicked, result, size_info,
                   display_offset, locked_gl_calls, prepared_attachments>>
    /\ UNCHANGED gl_vars

\* GraphicsRenderer::prepare, called with the lock held.  `debug` is the
\* build: with debug assertions and overflow checks (TRUE) or without.
Prepare(SizeInfos, Offsets) ==
    /\ ~panicked
    /\ pc = "locked"
    /\ \E si \in SizeInfos, offset \in Offsets, debug \in BOOLEAN :
          LET r == prepare(attachments, pending, removed, base_position,
                           next_texture, offset, si, debug)
          IN  IF r.panicked
              THEN /\ panicked' = TRUE
                   /\ last_op' = "panic"
                   /\ last_args' = << >>
                   /\ UNCHANGED <<attachments, pending, removed, next_texture,
                                  pc, result, size_info, display_offset,
                                  locked_gl_calls, prepared_attachments>>
              ELSE /\ panicked' = FALSE
                   /\ attachments' = r.attachments
                   /\ pending' = r.pending
                   /\ removed' = r.removed
                   /\ next_texture' = r.next
                   /\ pc' = "prepared"
                   /\ result' = r.value
                   /\ size_info' = si
                   /\ display_offset' = offset
                   /\ locked_gl_calls' =
                         locked_gl_calls \cup prepare_gl_calls(next_texture, r.next)
                   /\ prepared_attachments' = r.attachments
                   /\ last_op' = IF /\ pending = << >> /\ removed = << >>
                                    /\ prepared_attachments = attachments
                                    /\ si = size_info /\ offset = display_offset
                                 THEN "prepare_unchanged" ELSE "prepare"
                   /\ last_args' = << >>
    /\ UNCHANGED <<base_position, enqueued, sixel_shared_palette, lock>>
    /\ UNCHANGED gl_vars

\* The renderer releases the lock; commands, if any, go to the draw phase.
RendererUnlock ==
    /\ ~panicked
    /\ pc = "prepared"
    /\ lock' = "free"
    /\ pc' = IF result.some THEN "draw" ELSE "idle"
    /\ last_op' = "unlock"
    /\ last_args' = << >>
    /\ UNCHANGED store_vars
    /\ UNCHANGED <<next_texture, panicked, result, size_info,
                   display_offset, locked_gl_calls, prepared_attachments>>
    /\ UNCHANGED gl_vars

\* GraphicsRenderer::draw on the commands of the last prepare(); the vector
\* is consumed.
Draw ==
    /\ ~panicked
    /\ pc = "draw"
    /\ LET gl == draw([textures |-> gl_textures, released |-> gl_released,
                       fault |-> gl_fault], result.commands)
       IN  /\ gl_textures' = gl.textures
           /\ gl_released' = gl.released
           /\ gl_fault' = gl.fault
    /\ locked_gl_calls' =
          IF lock = "renderer"
          THEN locked_gl_calls \cup {result.commands[i].kind : i \in DOMAIN result.commands}
          ELSE locked_gl_calls
    /\ pc' = "idle"
    /\ result' = None
    /\ last_op' = "draw"
    /\ last_args' = << >>
    /\ UNCHANGED store_vars
    /\ UNCHANGED <<next_texture, panicked, lock, size_info, display_offset,
                   prepared_attachments>>

\* ------------------------------------------------------------------------
\* The specification: small graphics, the cell height changes between
\* prepare() calls.

\* The graphics read from the PTY: viewport line of the cursor, column, width
\* and height in pixels, pixel format.
Graphic(line, column, width, height, color_type) ==
    [line |-> line, column |-> column, width |-> width, height |-> height,
     color_type |-> color_type]

Graphics ==
    { Graphic(0, 0, 2, 4, "RGB"), Graphic(2, 1, 2, 4, "RGBA"),
      Graphic(0, 0, 2, 8, "RGB") }

SizeInfos == {SizeInfo(2, 2, 3), SizeInfo(2, 4, 3)}

DisplayOffsets == {0}

ClearRanges == {<<1, 2>>}

Positions == {1}

HistorySizes == {0, 1}

Init ==
    /\ GraphicsDefault
    /\ enqueued = 0
    /\ next_texture = FirstTexture
    /\ panicked = FALSE
    /\ lock = "free"
    /\ pc = "idle"
    /\ result = None
    /\ size_info = SizeInfo(2, 2, 3)
    /\ display_offset = 0
    /\ gl_textures = {}
    /\ gl_released = {}
    /\ gl_fault = FALSE
    /\ locked_gl_calls = {}
    /\ prepared_attachments = << >>
    /\ last_op = "new"
    /\ last_args = << >>

Next ==
    \/ Enqueue(Graphics, MaxGraphics)
    \/ Clear
    \/ ClearRange(ClearRanges)
    \/ MoveBasePosition(Positions, HistorySizes, MaxBase)
    \/ RendererLock
    \/ Prepare(SizeInfos, DisplayOffsets)
    \/ RendererUnlock
    \/ Draw

Spec == Init /\ [][Next]_vars

\* ------------------------------------------------------------------------
\* SpecStore: every operation of the store, the shared palette included;
\* the cell height stays at 4 pixels.

StoreSizeInfos == {SizeInfo(2, 4, 3)}

NextStore ==
    \/ Enqueue(Graphics, MaxGraphics)
    \/ SetSharedPalette
    \/ Clear
    \/ ClearRange(ClearRanges)
    \/ MoveBasePosition(Positions, HistorySizes, MaxBase)
    \/ RendererLock
    \/ Prepare(StoreSizeInfos, DisplayOffsets)
    \/ RendererUnlock
    \/ Draw

SpecStore == Init /\ [][NextStore]_vars

\* ------------------------------------------------------------------------
\* SpecScroll: the grid scrolls several lines, with and without history, and
\* the display is scrolled back; the cell height stays at 2 pixels.

ScrollSizeInfos == {SizeInfo(2, 2, 3)}

ScrollOffsets == {0, 1}

NextScroll ==
    \/ Enqueue(Graphics, MaxGraphics)
    \/ ClearRange(ClearRanges)
    \/ MoveBasePosition(Positions, HistorySizes, MaxScrollBase)
    \/ RendererLock
    \/ Prepare(ScrollSizeInfos, ScrollOffsets)
    \/ RendererUnlock
    \/ Draw

SpecScroll == Init /\ [][NextScroll]_vars

\* ------------------------------------------------------------------------
\* SpecAttach: graphics that are disjoint, identical, nested, above or beside
\* one another are attached to a grid of 2x4 pixel cells.

AttachGraphics ==
    {Graphic(0, 0, 10, 20, "RGB"),      \* lines 0..4, columns 0..4
     Graphic(0, 0, 10, 8, "RGB"),       \* lines 0..1, columns 0..4
     Graphic(1, 1, 4, 8, "RGBA"),       \* lines 1..2, columns 1..2
     Graphic(0, 0, 10, 6, "RGB"),       \* lines 0..1, the last one half covered
     Graphic(3, 2, 8, 12, "RGB"),       \* lines 3..5, columns 2..5
     Graphic(2, 8, 6, 24, "RGBA"),      \* lines 2..7, columns 8..10
     Graphic(1, 2, 8, 12, "RGB"),       \* lines 1..3, columns 2..5
     Graphic(6, 0, 4, 8, "RGB")}        \* lines 6..7, columns 0..1

AttachSizeInfos == {SizeInfo(2, 4, 10)}

NextAttach ==
    \/ Enqueue(AttachGraphics, MaxAttachGraphics)
    \/ RendererLock
    \/ Prepare(AttachSizeInfos, DisplayOffsets)
    \/ RendererUnlock
    \/ Draw

SpecAttach == Init /\ [][NextAttach]_vars

\* ------------------------------------------------------------------------
\* SpecRegression: the graphics of the test attach_with_overlapping_graphics
\* are read in its order; prepare() may run between any two of them.

RegressionGraphics ==
    << Graphic(2, 10, 2 * 5, 4 * 10 - 3, "RGB"),
       Graphic(15, 5, 2 * 30, 4 * 20, "RGB"),
       Graphic(0, 0, 2 * 5, 4 * 5, "RGB"),
       Graphic(10, 2, 2 * 30, 4 * 10, "RGB"),
       Graphic(25, 15, 2 * 5, 4 * 5, "RGBA") >>

RegressionSizeInfos == {SizeInfo(2, 4, 250)}

InitRegression ==
    /\ GraphicsDefault
    /\ enqueued = 0
    /\ next_texture = RegressionFirstTexture
    /\ panicked = FALSE
    /\ lock = "free"
    /\ pc = "idle"
    /\ result = None
    /\ size_info = SizeInfo(2, 4, 250)
    /\ display_offset = 0
    /\ gl_textures = {}
    /\ gl_released = {}
    /\ gl_fault = FALSE
    /\ locked_gl_calls = {}
    /\ prepared_attachments = << >>
    /\ last_op = "new"
    /\ last_args = << >>

NextRegression ==
    \/ Enqueue({RegressionGraphics[enqueued + 1]}, Len(RegressionGraphics))
    \/ RendererLock
    \/ Prepare(RegressionSizeInfos, DisplayOffsets)
    \/ RendererUnlock
    \/ Draw

SpecRegression == InitRegression /\ [][NextRegression]_vars

\* ------------------------------------------------------------------------
\* SpecThree: three graphics in a run; the store is changed by enqueue and
\* clear only.

NextThree ==
    \/ Enqueue(Graphics, MaxThree)
    \/ Clear
    \/ RendererLock
    \/ Prepare(SizeInfos, DisplayOffsets)
    \/ RendererUnlock
    \/ Draw

SpecThree == Init /\ [][NextThree]_vars

\* ------------------------------------------------------------------------
\* SpecTall: a graphic of the maximum height (MAX_GRAPHIC_DIMENSIONS) with
\* cells of 4 pixels, as in the repository's test; the grid scrolls by 1002
\* lines, which leaves the last 22 lines of that graphic in the viewport.

TallGraphics ==
    { Graphic(0, 0, 2, MAX_GRAPHIC_DIMENSIONS, "RGB"), Graphic(0, 0, 2, 4, "RGB") }

TallSizeInfos == {SizeInfo(2, 4, 30)}

TallPositions == {MaxTallBase}

TallHistorySizes == {0, 10000}

NextTall ==
    \/ Enqueue(TallGraphics, MaxGraphics)
    \/ Clear
    \/ ClearRange(ClearRanges)
    \/ MoveBasePosition(TallPositions, TallHistorySizes, MaxTallBase)
    \/ RendererLock
    \/ Prepare(TallSizeInfos, DisplayOffsets)
    \/ RendererUnlock
    \/ Draw

SpecTall == Init /\ [][NextTall]_vars

\* ------------------------------------------------------------------------
\* Claims.

\* The set of lines of the region attached at `top`.
RegionLines(att, top) == top..att[top].bottom

\* Two regions of the index share a line.
Overlapping(att) ==
    \E a, b \in DOMAIN att : a # b /\ RegionLines(att, a) \cap RegionLines(att, b) # {}

\* C1: after every prepare() call completes, no two regions of the
\* attachment index have intersecting [top_row, bottom_row] intervals.
C1_NoOverlapAfterPrepare == pc = "prepared" => ~Overlapping(attachments)

\* Textures of a sequence of items, and of the regions of the index.
ItemTextures(items) == [i \in DOMAIN items |-> items[i].texture]

Count(s, x) == Cardinality({i \in DOMAIN s : s[i] = x})

\* The textures a batch releases: the DeleteTextures lists and the
\* ResizeTexture sources, in order.
RECURSIVE BatchReleases(_)
BatchReleases(commands) ==
    IF commands = << >> THEN << >>
    ELSE LET c == Head(commands)
         IN  (CASE c.kind = "DeleteTextures" -> c.textures
                [] c.kind = "ResizeTexture"  -> << c.source.texture >>
                [] OTHER                     -> << >>)
             \o BatchReleases(Tail(commands))

\* How many holders texture t has: regions of the index, entries of removed,
\* releases of the batch not drawn yet, releases of the batches drawn.
Holders(t) ==
    Cardinality({k \in DOMAIN attachments : attachments[k].texture = t})
    + Count(ItemTextures(removed), t)
    + Count(BatchReleases(result.commands), t)
    + (IF t \in gl_released THEN 1 ELSE 0)

\* C2: every handle returned by the handle generator is held by exactly one
\* of a region of the index, an entry of removed, or the DeleteTextures list
\* or ResizeTexture source of an emitted batch.
C2_HandleHeldOnce == \A t \in FirstTexture..(next_texture - 1) : Holders(t) = 1

\* ------------------------------------------------------------------------
\* Destruction of regions.

IndexTextures(att) == {att[k].texture : k \in DOMAIN att}

SeqTextures(items) == Range(ItemTextures(items))

\* A step of the store that destroys regions, and a step that is a
\* completed prepare() call.
StoreStep == last_op' \in {"clear", "clear_range", "move_base_position"}

PrepareStep == pc = "locked" /\ pc' = "prepared"

ResizeSources(commands) ==
    {commands[i].source.texture :
        i \in {j \in DOMAIN commands : commands[j].kind = "ResizeTexture"}}

\* C3 as stated: every region that leaves the index, whatever destroys it, is
\* in the removed queue right after.
C3_DestroyedRegionsQueued ==
    [][\A t \in IndexTextures(attachments) \ IndexTextures(attachments') :
            t \in SeqTextures(removed')]_vars

\* C3: every region destroyed by move_base_position, clear_range or clear
\* is appended to the removed queue, and the DeleteTextures command of the
\* next prepare() lists exactly the handles of that queue; a region
\* superseded during a resize-merge is not queued: it leaves the index as
\* the source of a ResizeTexture command of the batch.
C3_DestroyedRegionsReleased ==
    [][/\ StoreStep =>
            /\ SubSeq(removed', 1, Len(removed)) = removed
            /\ \A t \in IndexTextures(attachments) \ IndexTextures(attachments') :
                  Count(ItemTextures(removed'), t) = 1
       /\ PrepareStep =>
            /\ removed # << >> =>
                  result'.commands[1] = DeleteTextures(ItemTextures(removed))
            /\ \A t \in ResizeSources(result'.commands) :
                  /\ t \notin IndexTextures(attachments')
                  /\ t \notin SeqTextures(removed')
                  /\ t \in IndexTextures(attachments) \/ t >= next_texture]_vars

C3_Witness ==
    /\ last_op \in {"clear", "clear_range", "move_base_position"}
    /\ removed # << >>
    /\ pc = "draw"
    /\ ResizeSources(result.commands) # {}

\* ------------------------------------------------------------------------
\* The queues after prepare().

Kinds(commands) == {commands[i].kind : i \in DOMAIN commands}

AttachKinds == {"InitTexture", "ResizeTexture", "BlitGraphic"}

\* C4: when prepare() returns, the pending queue and the removed queue are
\* both empty, whatever they contained at the call.
C4_QueuesEmptyAfterPrepare ==
    pc = "prepared" => pending = << >> /\ removed = << >>

\* prepare() has returned from a call that found entries in both queues.
C4_Witness ==
    /\ pc = "prepared"
    /\ "DeleteTextures" \in Kinds(result.commands)
    /\ Kinds(result.commands) \cap AttachKinds # {}
    /\ pending = << >> /\ removed = << >>

\* ------------------------------------------------------------------------
\* The shape of a batch.

\* The shape of the batch `value` returned for the queues `rem` and `pend`.
BatchShape(value, rem, pend) ==
    LET c == value.commands
        o == value.origin
        n == Len(c)
        attach == {i \in 1..n : c[i].kind \in AttachKinds}
    IN  /\ \A i \in 1..n : c[i].kind = "DeleteTextures" => i = 1
        /\ (rem # << >>) <=> (n >= 1 /\ c[1].kind = "DeleteTextures")
        /\ \A i \in 1..n : c[i].kind = "Render" => i = n
        /\ \A i \in 1..n : c[i].kind \in AttachKinds \cup {"DeleteTextures", "Render"}
        /\ \A i \in attach : o[i] \in 1..Len(pend)
        /\ \A i, j \in attach : i < j => o[i] <= o[j]

\* C5: every batch returned by prepare() has at most one DeleteTextures
\* command, placed first and present exactly when the removed queue was not
\* empty; then the attach commands of the pending images in arrival order;
\* then at most one Render command, placed last.
C5_BatchShape ==
    [][PrepareStep /\ result'.some => BatchShape(result', removed, pending)]_vars

\* A batch with a DeleteTextures, the commands of two images and a Render.
C5_Witness ==
    /\ pc = "prepared"
    /\ result.some
    /\ Len(result.commands) >= 4
    /\ result.commands[1].kind = "DeleteTextures"
    /\ result.commands[Len(result.commands)].kind = "Render"
    /\ {1, 2} \subseteq Range(result.origin)

\* ------------------------------------------------------------------------
\* The lock.

\* C6: no content-bearing OpenGL call is made while the lock on the grid is
\* held: under the lock prepare() only generates texture names, and the
\* commands are executed by draw() after the lock is released.
C6_NoContentUnderLock ==
    /\ locked_gl_calls \subseteq {"glGenTextures"}
    /\ pc = "draw" => lock # "renderer"

\* prepare() has generated a name under the lock, after an earlier batch was
\* drawn.
C6_Witness ==
    /\ lock = "renderer"
    /\ pc = "prepared"
    /\ "glGenTextures" \in locked_gl_calls
    /\ gl_textures # {}
    /\ Kinds(result.commands) \cap AttachKinds # {}

\* ------------------------------------------------------------------------
\* The textures in the GPU.

\* C7: over all the batches drawn, in order, every texture a BlitGraphic, a
\* ResizeTexture source or a Render vertex uses was initialised by an earlier
\* InitTexture or ResizeTexture and not released since, and no texture is
\* released twice.
C7_TexturesUsedWhileAlive == ~gl_fault

\* A batch with a resize and a blit was drawn after a batch that released a
\* texture.
C7_Witness ==
    /\ last_op = "draw"
    /\ Cardinality(gl_released) >= 2
    /\ gl_textures # {}
    /\ ~gl_fault

\* ------------------------------------------------------------------------
\* The value prepare() returns.

\* C8: prepare() returns None exactly when the attachments, the pending
\* queue and the removed queue are all empty at the call, and returning
\* None changes no state.
C8_NoneIffEmpty ==
    [][PrepareStep =>
          /\ ~result'.some <=>
                (attachments = << >> /\ pending = << >> /\ removed = << >>)
          /\ ~result'.some =>
                /\ UNCHANGED <<store_vars, gl_vars>>
                /\ UNCHANGED next_texture]_vars

\* None was returned by a store that held graphics before.
C8_Witness ==
    /\ pc = "prepared"
    /\ ~result.some
    /\ gl_released # {}

\* C9 as stated: a prepare() that finds nothing changed returns None.
C9_NoneWhenUnchanged == last_op = "prepare_unchanged" => ~result.some

\* C9: a prepare() that finds both queues empty and the attachments, the
\* geometry and the display offset as the previous prepare() left them
\* returns None only when the attachments are empty; otherwise it returns
\* Some(batch), and the batch holds no command but Render.
C9_SomeWhileAttached ==
    last_op = "prepare_unchanged" =>
        /\ ~result.some <=> attachments = << >>
        /\ Kinds(result.commands) \subseteq {"Render"}

C9_Witness ==
    /\ last_op = "prepare_unchanged"
    /\ attachments # << >>
    /\ result.some
    /\ Kinds(result.commands) = {"Render"}

\* ------------------------------------------------------------------------
\* Graphics::clear.

\* C10: after clear() the attachments are empty, every region that was
\* attached is appended to the removed queue after the entries it held, the
\* pending queue is empty, the shared palette is absent and base_position
\* is 0.
C10_ClearPost ==
    [][last_op' = "clear" =>
          /\ attachments' = << >>
          /\ Len(removed') = Len(removed) + Cardinality(DOMAIN attachments)
          /\ SubSeq(removed', 1, Len(removed)) = removed
          /\ \A k \in DOMAIN attachments :
                \E i \in (Len(removed) + 1)..Len(removed') :
                    removed'[i] = attachments[k]
          /\ pending' = << >>
          /\ sixel_shared_palette' = FALSE
          /\ base_position' = 0]_vars

\* clear() has moved a region to the removed queue that already held one.
C10_Witness ==
    /\ last_op = "clear"
    /\ Len(removed) >= 2
    /\ attachments = << >> /\ pending = << >>
    /\ ~sixel_shared_palette /\ base_position = 0

\* ------------------------------------------------------------------------
\* Graphics::clear_range and Graphics::move_base_position.

\* The regions of `att` with a line in the set `lines`.
Intersecting(att, lines) ==
    {k \in DOMAIN att : RegionLines(att, k) \cap lines # {}}

\* The entries `rem1` holds after those of `rem0` are the regions `keys`
\* of `att`, in some order.
Appended(rem0, rem1, att, keys) ==
    /\ Len(rem1) = Len(rem0) + Cardinality(keys)
    /\ SubSeq(rem1, 1, Len(rem0)) = rem0
    /\ \A k \in keys : \E i \in (Len(rem0) + 1)..Len(rem1) : rem1[i] = att[k]

\* C11: clear_range(range) moves to the removed queue every region whose
\* lines intersect the range (lines of the grid, mapped through
\* base_position) and leaves every other region in the attachments.
C11_ClearRangeIntersecting ==
    [][last_op' = "clear_range" =>
          LET lines == {GraphicsLine(base_position, l) :
                            l \in last_args'[1]..last_args'[2]}
              hit   == Intersecting(attachments, lines)
          IN  /\ DOMAIN attachments' = DOMAIN attachments \ hit
              /\ \A k \in DOMAIN attachments' : attachments'[k] = attachments[k]
              /\ Appended(removed, removed', attachments, hit)]_vars

\* C12: after move_base_position(positions, history_size), no region whose
\* bottom is above base_position - history_size remains attached, for every
\* history size, 0 included.
C12_NoRegionAboveHistory ==
    [][last_op' = "move_base_position" =>
          \A k \in DOMAIN attachments' :
              attachments'[k].bottom >= base_position' - last_args'[2]]_vars

\* C13: move_base_position(positions, history_size) adds positions to
\* base_position and never removes a region whose bottom is at or below
\* base_position - history_size.
C13_EvictsOnlyAboveHistory ==
    [][last_op' = "move_base_position" =>
          /\ base_position' = base_position + last_args'[1]
          /\ \A k \in DOMAIN attachments :
                attachments[k].bottom >= base_position' - last_args'[2] =>
                    /\ k \in DOMAIN attachments'
                    /\ attachments'[k] = attachments[k]]_vars

\* C14: visible_range(size_info, display_offset) is the inclusive range from
\* base_position - ROWS_PER_GRAPHIC - display_offset to
\* base_position + screen_lines - display_offset, whatever base_position
\* the scrolling has reached.
C14_VisibleRange ==
    LET r == visible_range(base_position, size_info.screen_lines, display_offset)
    IN  /\ r.top = base_position - ROWS_PER_GRAPHIC - display_offset
        /\ r.bottom = base_position + size_info.screen_lines - display_offset

\* prepare() has rendered a scrolled-back display after the grid scrolled.
C14_Witness ==
    /\ pc = "prepared"
    /\ base_position = MaxScrollBase
    /\ display_offset = 1
    /\ "Render" \in Kinds(result.commands)

\* ------------------------------------------------------------------------
\* attach_graphics on graphics that are disjoint, identical or nested.

\* The lines of the grid a graphic covers.
ImageLines(g, si) == g.line..(g.line + CeilDiv(g.height, si.cell_height) - 1)

IsAttach(command) == command.kind \in AttachKinds

\* The commands of a batch that attach_graphics emitted.
AttachCommands(value) == SelectSeq(value.commands, IsAttach)

PairwiseDisjoint(pend, si) ==
    \A i, j \in DOMAIN pend :
        i < j => ImageLines(pend[i], si) \cap ImageLines(pend[j], si) = {}

Positive(pend) == \A i \in DOMAIN pend : pend[i].width > 0 /\ pend[i].height > 0

\* C15: a sequence of pairwise non-overlapping graphics attached to empty
\* attachments gives exactly one InitTexture per graphic and no other
\* command, and leaves that many pairwise disjoint regions.
C15_DisjointImages ==
    [][(/\ PrepareStep
        /\ attachments = << >> /\ pending # << >>
        /\ Positive(pending)
        /\ PairwiseDisjoint(pending, size_info'))
       => /\ AttachCommands(result') =
                [i \in 1..Len(pending) |->
                    InitTexture(next_texture + i - 1, pending[i])]
          /\ Cardinality(DOMAIN attachments') = Len(pending)
          /\ ~Overlapping(attachments')]_vars

\* Three disjoint graphics were attached by one prepare() to empty
\* attachments.
C15_Witness ==
    /\ pc = "prepared"
    /\ next_texture = FirstTexture + 3
    /\ Cardinality(DOMAIN attachments) = 3
    /\ Len(AttachCommands(result)) = 3
    /\ \A i \in 1..3 : AttachCommands(result)[i].kind = "InitTexture"

\* The region at the line of graphic g has its column, width and height:
\* it is what attaching an identical graphic left.
IdenticalRegion(att, g) ==
    /\ g.line \in DOMAIN att
    /\ att[g.line].column = g.column
    /\ att[g.line].width = g.width
    /\ att[g.line].height = g.height

\* prepare() is called for one graphic of positive size.
AttachOne == PrepareStep /\ Len(pending) = 1 /\ Positive(pending)

Inside(att, k, g, si) ==
    /\ k <= g.line
    /\ ImageLines(g, si) \subseteq RegionLines(att, k)
    /\ att[k].column <= g.column
    /\ si.cell_width * g.column + g.width
          <= si.cell_width * att[k].column + att[k].width

IntersectedKeys(att, g, si) == Intersecting(att, ImageLines(g, si))

\* The lowest key of a non-empty set of keys.
FirstKey(keys) == CHOOSE k \in keys : \A other \in keys : k <= other

\* C18: a graphic whose top line is k > 0 lines above the first region it
\* intersects gives one InitTexture for a slice of k lines (height
\* k * cell_height, its column and width, the region from its line to
\* line + k - 1, a new texture), and then what attaching the rest of the
\* graphic at the top line of the region gives.
C18_UpperSlice ==
    [][(/\ AttachOne
        /\ IntersectedKeys(attachments, pending[1], size_info') # {}
        /\ FirstKey(IntersectedKeys(attachments, pending[1], size_info'))
              > pending[1].line)
       => LET g      == pending[1]
              si     == size_info'
              first  == FirstKey(IntersectedKeys(attachments, g, si))
              k      == first - g.line
              height == k * si.cell_height
              bytes  == height * g.width * bytes_per_pixel(g.color_type)
              slice  == [g EXCEPT !.height = height, !.pixels = bytes]
              item   == GraphicItem(next_texture, g.column, g.line + k - 1,
                                    si.cell_height, g.width, height)
              rest   == [g EXCEPT !.line = first, !.height = g.height - height,
                                  !.pixels = g.pixels - bytes]
              after  == attach_graphics(
                            [att |-> MapInsert(attachments, g.line, item),
                             cmds |-> << >>, origin |-> << >>,
                             next |-> next_texture + 1, ng |-> rest,
                             status |-> "run"],
                            si, rest, FALSE, 1)
              cmds   == AttachCommands(result')
          IN  /\ Len(cmds) >= 2
              /\ cmds[1] = InitTexture(next_texture, slice)
              /\ Tail(cmds) = after.cmds
              /\ \A i \in 2..Len(cmds) :
                    cmds[i].kind = "InitTexture" => cmds[i].data.line > first
              /\ attachments' = after.att
              /\ attachments'[g.line] = item
              /\ next_texture' = after.next]_vars

\* A slice of two lines was split off a graphic and the rest went to the
\* region below.
C18_Witness ==
    /\ pc = "prepared"
    /\ Len(result.commands) >= 2
    /\ result.origin[1] = result.origin[2]
    /\ result.commands[1].kind = "InitTexture"
    /\ result.commands[1].data.height = 2 * size_info.cell_height
    /\ result.commands[2].kind \in {"ResizeTexture", "BlitGraphic"}
    /\ result.commands[1].data.line + 2 \in DOMAIN attachments

\* ------------------------------------------------------------------------
\* The regression test attach_with_overlapping_graphics.

\* The kind and the textures of a command.
Step(kind, texture, source) == [kind |-> kind, texture |-> texture, source |-> source]

StepOf(command) ==
    CASE command.kind = "InitTexture" ->
            Step("InitTexture", command.texture, 0)
      [] command.kind = "ResizeTexture" ->
            Step("ResizeTexture", command.target_texture, command.source.texture)
      [] command.kind = "BlitGraphic" ->
            Step("BlitGraphic", command.texture, 0)

Steps(commands) == [i \in DOMAIN commands |-> StepOf(commands[i])]

\* The commands the test expects, with t the first texture name.
RegressionSteps ==
    LET t == RegressionFirstTexture
    IN  << Step("InitTexture", t, 0),
           Step("InitTexture", t + 1, 0),
           Step("InitTexture", t + 2, 0),
           Step("ResizeTexture", t + 3, t),
           Step("BlitGraphic", t + 3, 0),
           Step("ResizeTexture", t + 4, t + 3),
           Step("BlitGraphic", t + 4, 0),
           Step("InitTexture", t + 5, 0),
           Step("ResizeTexture", t + 6, t + 1),
           Step("BlitGraphic", t + 6, 0),
           Step("BlitGraphic", t + 6, 0) >>

\* The regions the test expects as <<top, bottom, texture>>.
RegressionRegions ==
    LET t == RegressionFirstTexture
    IN  {<<0, 1, t + 2>>, <<2, 11, t + 4>>, <<12, 14, t + 5>>, <<15, 34, t + 6>>}

Regions(att) == {<<k, att[k].bottom, att[k].texture>> : k \in DOMAIN att}

\* C19: the five graphics of the regression test, attached in order on 2x4
\* pixel cells with texture names from 10, give exactly the eleven commands
\* of the test, generate exactly 7 textures and leave exactly the 4
\* disjoint regions of the test, however the run is repeated or split in
\* prepare() calls.
C19_Regression ==
    /\ pc = "prepared" =>
          \E a \in 1..(Len(RegressionSteps) + 1) :
              Steps(AttachCommands(result)) =
                  SubSeq(RegressionSteps, a, a + Len(AttachCommands(result)) - 1)
    /\ (enqueued = Len(RegressionGraphics) /\ pending = << >> /\ pc # "locked")
          => /\ Regions(attachments) = RegressionRegions
             /\ Cardinality(DOMAIN attachments) = 4
             /\ ~Overlapping(attachments)
             /\ next_texture = RegressionFirstTexture + 7
    /\ next_texture <= RegressionFirstTexture + 7
    /\ ~panicked

\* All five graphics were attached by a single prepare().
C19_Witness ==
    /\ pc = "prepared"
    /\ enqueued = Len(RegressionGraphics)
    /\ Steps(AttachCommands(result)) = RegressionSteps
    /\ Regions(attachments) = RegressionRegions

\* ------------------------------------------------------------------------
\* attach_graphics on a graphic beside a region (the example of the module
\* documentation).

\* Graphic g starts above the region at key k and ends below it, touches no
\* other region, and its columns are outside the columns of the region.
Beside(att, k, g, si) ==
    /\ IntersectedKeys(att, g, si) = {k}
    /\ g.line < k
    /\ g.line + CeilDiv(g.height, si.cell_height) - 1 > att[k].bottom
    /\ \/ si.cell_width * g.column >= si.cell_width * att[k].column + att[k].width
       \/ si.cell_width * g.column + g.width <= si.cell_width * att[k].column

\* C20: a graphic that shares lines with a region but lies outside its
\* columns, starting above it and ending below it, is attached as one
\* InitTexture for the lines above, one ResizeTexture that widens the
\* region to the union of both column spans, one BlitGraphic for the
\* shared lines and one InitTexture for the lines below; three regions
\* with disjoint lines are left in its place.
C20_BesideRegion ==
    [][AttachOne =>
          \A k \in DOMAIN attachments :
              Beside(attachments, k, pending[1], size_info')
              => LET g      == pending[1]
                     si     == size_info'
                     cw     == si.cell_width
                     ch     == si.cell_height
                     old    == attachments[k]
                     oright == cw * old.column + old.width
                     gright == cw * g.column + g.width
                     left   == IF old.column <= g.column THEN old.column ELSE g.column
                     right  == IF oright >= gright THEN oright ELSE gright
                     shared == old.bottom - k + 1
                     bottom == g.line + CeilDiv(g.height, ch) - 1
                     cmds   == AttachCommands(result')
                 IN  /\ Len(cmds) = 4
                     /\ cmds[1].kind = "InitTexture"
                     /\ cmds[1].texture = next_texture
                     /\ cmds[1].data.line = g.line
                     /\ cmds[1].data.height = (k - g.line) * ch
                     /\ cmds[2].kind = "ResizeTexture"
                     /\ cmds[2].source = old
                     /\ cmds[2].target_texture = next_texture + 1
                     /\ cmds[2].width = right - cw * left
                     /\ cmds[2].source_offset = (old.column - left) * cw
                     /\ cmds[3].kind = "BlitGraphic"
                     /\ cmds[3].texture = next_texture + 1
                     /\ cmds[3].offset_x = (g.column - left) * cw
                     /\ cmds[3].offset_y = 0
                     /\ cmds[3].height = shared * ch
                     /\ cmds[4].kind = "InitTexture"
                     /\ cmds[4].texture = next_texture + 2
                     /\ cmds[4].data.line = old.bottom + 1
                     /\ cmds[4].data.height = g.height - (k - g.line) * ch - shared * ch
                     /\ next_texture' = next_texture + 3
                     /\ DOMAIN attachments' =
                           DOMAIN attachments \cup {g.line, old.bottom + 1}
                     /\ Regions(attachments') \ Regions(attachments) =
                           {<<g.line, k - 1, next_texture>>,
                            <<k, old.bottom, next_texture + 1>>,
                            <<old.bottom + 1, bottom, next_texture + 2>>}
                     /\ attachments'[k].column = left
                     /\ attachments'[k].width = right - cw * left
                     /\ ~Overlapping(attachments')]_vars

\* The graphic at columns 8..10, lines 2..7 was attached beside the region
\* at columns 2..5, lines 3..5.
C20_Witness ==
    /\ pc = "prepared"
    /\ Len(AttachCommands(result)) = 4
    /\ [i \in 1..4 |-> AttachCommands(result)[i].kind] =
          <<"InitTexture", "ResizeTexture", "BlitGraphic", "InitTexture">>
    /\ {2, 3, 6} \subseteq DOMAIN attachments
    /\ attachments[2].column = 8 /\ attachments[2].bottom = 2
    /\ attachments[3].column = 2 /\ attachments[3].bottom = 5
    /\ attachments[3].width = 18
    /\ attachments[6].column = 8 /\ attachments[6].bottom = 7

\* ------------------------------------------------------------------------
\* SpecDegenerate: graphics with no pixels (zero width or zero height) are
\* read from the PTY next to an ordinary one; 2x4 pixel cells.

DegenerateGraphics ==
    {Graphic(0, 0, 4, 8, "RGB"),        \* lines 0..1, columns 0..1
     Graphic(1, 0, 4, 0, "RGB"),        \* no pixel rows, at line 1
     Graphic(3, 0, 0, 8, "RGB"),        \* no pixel columns, lines 3..4
     Graphic(0, 1, 0, 4, "RGBA")}       \* no pixel columns, line 0

NextDegenerate ==
    \/ Enqueue(DegenerateGraphics, MaxAttachGraphics)
    \/ RendererLock
    \/ Prepare(AttachSizeInfos, DisplayOffsets)
    \/ RendererUnlock
    \/ Draw

SpecDegenerate == Init /\ [][NextDegenerate]_vars

\* A graphic with no pixels.
Degenerate(g) == g.width = 0 \/ g.height = 0

\* C21: a graphic of zero width or zero height is consumed by prepare()
\* with no command emitted for it, no texture generated and the attachments
\* left as they were, wherever it lies relative to the regions attached.
C21_DegenerateConsumed ==
    [][PrepareStep =>
          /\ \A i \in DOMAIN pending :
                Degenerate(pending[i]) => i \notin Range(result'.origin)
          /\ (\A i \in DOMAIN pending : Degenerate(pending[i])) =>
                /\ next_texture' = next_texture
                /\ attachments' = attachments]_vars

\* ------------------------------------------------------------------------
\* The pending queue between two prepare() calls.

\* The step pushes one graphic to the pending queue.
Pushed == Len(pending') = Len(pending) + 1 /\ SubSeq(pending', 1, Len(pending)) = pending

\* The step is a prepare() that returns a batch with commands for every
\* graphic of the pending queue and leaves the queue empty.
Consumed ==
    /\ PrepareStep
    /\ pending' = << >>
    /\ pending # << >> => result'.some
    /\ \A i \in DOMAIN pending : i \in Range(result'.origin)

IsPiece(command) == command.kind \in {"InitTexture", "BlitGraphic"}

\* The positions, in the batch, of the commands that carry pixels of the
\* pending graphic i.
PieceIdx(value, i) ==
    SortedSeq({j \in DOMAIN value.commands :
                  value.origin[j] = i /\ IsPiece(value.commands[j])})

PieceHeight(command) ==
    IF command.kind = "InitTexture" THEN command.data.height ELSE command.height

PieceWidth(command) ==
    IF command.kind = "InitTexture" THEN command.data.width ELSE command.width

PieceBytes(command) ==
    IF command.kind = "InitTexture" THEN command.data.pixels ELSE command.pixels

PieceColor(command) ==
    IF command.kind = "InitTexture" THEN command.data.color_type ELSE command.color_type

RECURSIVE SumHeights(_, _)
SumHeights(commands, idx) ==
    IF idx = << >> THEN 0
    ELSE PieceHeight(commands[Head(idx)]) + SumHeights(commands, Tail(idx))

\* The line of the grid where the first pixel row of a piece goes: the line
\* of an InitTexture; for a BlitGraphic, offset_y below the top of the region
\* that holds its texture.
PieceLines(command, att, si) ==
    IF command.kind = "InitTexture" THEN {command.data.line}
    ELSE {k + (command.offset_y \div si.cell_height) :
             k \in {key \in DOMAIN att : att[key].texture = command.texture}}

\* C23: for every pending graphic of height h, the heights of the
\* InitTexture and BlitGraphic commands emitted for it sum to h, each piece
\* has the width of the graphic and width * piece height * bytes_per_pixel
\* bytes of pixels, and the pieces are emitted from the top line down (for
\* the last graphic of the queue, whose textures are those of the regions
\* prepare() leaves).
C23_PiecesSumToHeight ==
    [][PrepareStep =>
          \A i \in DOMAIN pending :
              LET g   == pending[i]
                  c   == result'.commands
                  idx == PieceIdx(result', i)
              IN  /\ SumHeights(c, idx) = g.height
                  /\ \A n \in DOMAIN idx :
                        /\ PieceWidth(c[idx[n]]) = g.width
                        /\ PieceColor(c[idx[n]]) = g.color_type
                        /\ PieceHeight(c[idx[n]]) >= 0
                        /\ PieceBytes(c[idx[n]]) =
                              g.width * PieceHeight(c[idx[n]])
                                  * bytes_per_pixel(g.color_type)
                  /\ i = Len(pending) =>
                        \A n \in 1..(Len(idx) - 1) :
                            \A a \in PieceLines(c[idx[n]], attachments', size_info') :
                                \A b \in PieceLines(c[idx[n + 1]], attachments', size_info') :
                                    /\ g.line <= a
                                    /\ a < b]_vars

\* A graphic was cut in three pieces: the lines above a region, the lines
\* on it and the lines below it.
C23_Witness ==
    /\ pc = "prepared"
    /\ \E i \in Range(result.origin) :
          LET idx == PieceIdx(result, i)
          IN  /\ Len(idx) = 3
              /\ result.commands[idx[1]].kind = "InitTexture"
              /\ result.commands[idx[2]].kind = "BlitGraphic"
              /\ result.commands[idx[3]].kind = "InitTexture"
              /\ \A n \in 1..3 : PieceHeight(result.commands[idx[n]]) > 0

\* ------------------------------------------------------------------------
\* GraphicData::resized (alacritty_terminal/src/graphics/mod.rs:154-238).

\* enum ResizeParameter; n is 0 for Auto.
Auto == [unit |-> "Auto", n |-> 0]

Cells(n) == [unit |-> "Cells", n |-> n]

Pixels(n) == [unit |-> "Pixels", n |-> n]

WindowPercent(n) == [unit |-> "WindowPercent", n |-> n]

\* Option<ResizeCommand>: the `resize` field of GraphicData.
NoResize ==
    [is_some |-> FALSE, width |-> Auto, height |-> Auto,
     preserve_aspect_ratio |-> FALSE]

ResizeCommand(width, height, preserve_aspect_ratio) ==
    [is_some |-> TRUE, width |-> width, height |-> height,
     preserve_aspect_ratio |-> preserve_aspect_ratio]

\* GraphicData::from_dynamic_image on a decoded image of the given size,
\* with the resize command the parser stores next (osc1337.rs:38-39).
from_dynamic_image(column, line, color_type, width, height, resize) ==
    [column |-> column, line |-> line, width |-> width, height |-> height,
     color_type |-> color_type,
     pixels |-> width * height * bytes_per_pixel(color_type),
     resize |-> resize]

\* Option<GraphicData> returned by resized().
NoGraphic == [some |-> FALSE, data |-> from_dynamic_image(0, 0, "RGB", 0, 0, NoResize)]

SomeGraphic(data) == [some |-> TRUE, data |-> data]

\* A faulty ResizeTarget: a number of cells is taken as a number of pixels.
ResizeTarget_cells_as_pixels(param, cell, view) ==
    CASE param.unit = "Auto"          -> 1
      [] param.unit = "Pixels"        -> param.n
      [] param.unit = "Cells"         -> param.n
      [] param.unit = "WindowPercent" -> (param.n * view) \div 100

\* Lines 173-185: the size a resize parameter asks for.
ResizeTarget(param, cell, view) ==
    CASE param.unit = "Auto"          -> 1
      [] param.unit = "Pixels"        -> param.n
      [] param.unit = "Cells"         -> param.n * cell
      [] param.unit = "WindowPercent" -> (param.n * view) \div 100

\* a / b rounded to the nearest integer, halves up (f64::round of a
\* non-negative quotient).
Round(a, b) == (2 * a + b) \div (2 * b)

\* DynamicImage::resize of the image crate (called at line 232): the size
\* of the result keeps the aspect ratio of the image and fits in nwidth x
\* nheight, each side at least 1.  The side the ratio derives is rounded to
\* nearest by the releases that compute it in f64 and rounded down by the
\* releases that compute it in u64, which also keep nwidth or nheight as it
\* is; both outcomes are possible sizes.
image_resize(width, height, nwidth, nheight) ==
    LET use_width == nwidth * height <= nheight * width
    IN  IF use_width
        THEN {<<Max(nwidth, 1), Max(Round(height * nwidth, width), 1)>>,
              <<nwidth, Max(1, (height * nwidth) \div width)>>}
        ELSE {<<Max(Round(width * nheight, height), 1), Max(nheight, 1)>>,
              <<Max(1, (width * nheight) \div height), nheight>>}

\* DynamicImage::resize_exact (called at line 234): exactly nwidth x nheight.
image_resize_exact(width, height, nwidth, nheight) == {<<nwidth, nheight>>}

\* GraphicData::resized: the set of values the call can return (one value,
\* but for the rounding of DynamicImage::resize).
resized(self, cell_width, cell_height, view_width, view_height) ==
    LET resize  == self.resize
        \* lines 173-185
        width0  == ResizeTarget(resize.width, cell_width, view_width)
        height0 == ResizeTarget(resize.height, cell_height, view_height)
        \* lines 191-198: "auto" dimensions
        width1  == IF resize.width.unit = "Auto"
                   THEN (self.width * height0) \div self.height ELSE width0
        height1 == IF resize.height.unit = "Auto"
                   THEN (self.height * width1) \div self.width ELSE height0
        \* lines 200-202
        width   == Min(width1, MAX_GRAPHIC_DIMENSIONS)
        height  == Min(height1, MAX_GRAPHIC_DIMENSIONS)
        \* lines 231-235
        sizes   == IF resize.preserve_aspect_ratio
                   THEN image_resize(self.width, self.height, width, height)
                   ELSE image_resize_exact(self.width, self.height, width, height)
    IN  IF ~resize.is_some THEN {SomeGraphic(self)}                     \* 161-164
        ELSE IF \/ resize.width.unit = "Auto" /\ resize.height.unit = "Auto"
                \/ self.height = 0
                \/ self.width = 0
        THEN {SomeGraphic(self)}                                        \* 166-171
        ELSE IF width0 = 0 \/ height0 = 0 THEN {NoGraphic}              \* 187-189
        ELSE IF self.pixels < self.width * self.height * bytes_per_pixel(self.color_type)
        THEN {NoGraphic}                                                \* from_raw(..)?
        ELSE {SomeGraphic(from_dynamic_image(self.column, self.line, self.color_type,
                                             d[1], d[2], NoResize)) : d \in sizes}

\* The geometry resized() is called with: the cell and the view in pixels.
View(cell_width, cell_height, view_width, view_height) ==
    [cell_width |-> cell_width, cell_height |-> cell_height,
     view_width |-> view_width, view_height |-> view_height]

\* A graphic decoded by a parser is resized and, unless resized() returns
\* None, pushed to `pending` at the line of the cursor.  last_args keeps the
\* graphic, the geometry and the value resized() returned.
Insert(Sources, Views, max_graphics) ==
    /\ ReaderLocked
    /\ enqueued < max_graphics
    /\ enqueued' = enqueued + 1
    /\ \E self \in Sources, view \in Views :
          \E r \in resized(self, view.cell_width, view.cell_height,
                           view.view_width, view.view_height) :
              /\ pending' =
                    IF r.some
                    THEN Append(pending,
                            [column |-> r.data.column,
                             line |-> GraphicsLine(base_position, r.data.line),
                             width |-> r.data.width, height |-> r.data.height,
                             color_type |-> r.data.color_type,
                             pixels |-> r.data.pixels])
                    ELSE pending
              /\ last_args' = <<self, view, r>>
    /\ last_op' = "insert"
    /\ UNCHANGED <<base_position, attachments, removed, sixel_shared_palette, panicked>>
    /\ UNCHANGED renderer_vars

\* ------------------------------------------------------------------------
\* SpecResize: graphics with a resize command are read from the PTY; cells
\* of 2x4 pixels in a view of 50x40 pixels.

\* At most MaxInserted graphics are read in one run of SpecResize.
MaxInserted == 1

ResizedWidths == {Auto, Cells(0), Cells(3), Cells(3000)}

ResizedHeights == {Auto, Cells(2), Pixels(5), Pixels(5000), WindowPercent(1)}

ResizeCommands ==
    {NoResize} \cup
    {ResizeCommand(w, h, p) : w \in ResizedWidths, h \in ResizedHeights, p \in BOOLEAN}

ResizedSources ==
    {from_dynamic_image(0, 0, c[1], c[2], c[3], resize) :
        c \in {<<"RGB", 10, 10>>, <<"RGB", 1, 10>>, <<"RGBA", 5000, 10>>},
        resize \in ResizeCommands}

ResizedViews == {View(2, 4, 50, 40)}

NextResize ==
    \/ Insert(ResizedSources, ResizedViews, MaxInserted)
    \/ RendererLock
    \/ Prepare(AttachSizeInfos, DisplayOffsets)
    \/ RendererUnlock
    \/ Draw

SpecResize == Init /\ [][NextResize]_vars

\* ------------------------------------------------------------------------
\* Claims on resized().  In a state reached by Insert, last_args is the
\* graphic, the geometry and the value resized() returned.

Inserted == last_op = "insert"

InsertedSelf == last_args[1]

InsertedView == last_args[2]

InsertedResult == last_args[3]

\* The graphic has pixels and a resize command with width = Cells(n), a
\* height other than Auto and n * cell_width within MAX_GRAPHIC_DIMENSIONS.
CellsWidth ==
    /\ Inserted
    /\ InsertedSelf.width > 0 /\ InsertedSelf.height > 0
    /\ InsertedSelf.resize.is_some
    /\ InsertedSelf.resize.width.unit = "Cells"
    /\ InsertedSelf.resize.height.unit # "Auto"
    /\ InsertedSelf.resize.width.n * InsertedView.cell_width <= MAX_GRAPHIC_DIMENSIONS

\* The width and the height the resize command asks for, the height as
\* limited by MAX_GRAPHIC_DIMENSIONS.
AskedWidth == InsertedSelf.resize.width.n * InsertedView.cell_width

AskedHeight ==
    LET param == InsertedSelf.resize.height
        h == CASE param.unit = "Pixels" -> param.n
               [] param.unit = "Cells" -> param.n * InsertedView.cell_height
               [] param.unit = "WindowPercent" ->
                     (param.n * InsertedView.view_height) \div 100
               [] OTHER -> 1
    IN  IF h <= MAX_GRAPHIC_DIMENSIONS THEN h ELSE MAX_GRAPHIC_DIMENSIONS

\* C24 as stated: with width = Cells(n) and a height other than Auto, the
\* image resized() yields is n * cell_width pixels wide, with and without
\* preserve_aspect_ratio.
C24_CellsWidthExact ==
    CellsWidth =>
        /\ (AskedWidth > 0 /\ AskedHeight > 0) => InsertedResult.some
        /\ InsertedResult.some => InsertedResult.data.width = AskedWidth

\* C24: with width = Cells(n) and a height other than Auto, the image
\* resized() yields is exactly n * cell_width pixels wide (and as high as
\* asked) when preserve_aspect_ratio is false; when it is true the image is
\* n * cell_width wide if the asked box is not wider than the image in
\* proportion (n * cell_width * image height <= asked height * image
\* width), and at most that wide and as high as asked otherwise.
C24_CellsWidthExactOrFit ==
    CellsWidth =>
        /\ (AskedWidth > 0 /\ AskedHeight > 0) => InsertedResult.some
        /\ InsertedResult.some =>
              IF ~InsertedSelf.resize.preserve_aspect_ratio
              THEN /\ InsertedResult.data.width = AskedWidth
                   /\ InsertedResult.data.height = AskedHeight
              ELSE IF AskedWidth * InsertedSelf.height <= AskedHeight * InsertedSelf.width
              THEN /\ InsertedResult.data.width = AskedWidth
                   /\ InsertedResult.data.height <= AskedHeight
              ELSE /\ InsertedResult.data.width <= AskedWidth
                   /\ InsertedResult.data.width >= 1
                   /\ InsertedResult.data.height = AskedHeight

\* A 10x10 graphic asked to be 3 cells wide and 2 cells high, keeping its
\* aspect ratio, was resized to 6x6 pixels and pushed to the pending queue.
C24_Witness ==
    /\ CellsWidth
    /\ InsertedSelf.resize.preserve_aspect_ratio
    /\ InsertedSelf.width = 10
    /\ InsertedSelf.resize.height = Cells(2)
    /\ InsertedResult.some
    /\ InsertedResult.data.width = 3 * InsertedView.cell_width
    /\ InsertedResult.data.height = 6
    /\ Len(pending) = 1 /\ pending[1].width = 6

\* The resize command of the inserted graphic is carried out: there is one,
\* not both of its sides are Auto, and the graphic has pixels.
Effective ==
    /\ Inserted
    /\ InsertedSelf.resize.is_some
    /\ ~(InsertedSelf.resize.width.unit = "Auto" /\ InsertedSelf.resize.height.unit = "Auto")
    /\ InsertedSelf.width > 0 /\ InsertedSelf.height > 0

\* The target width and height resized() computes, before the limit: from
\* the parameter, or from the other side for Auto.
ComputedWidth ==
    LET r  == InsertedSelf.resize
        v  == InsertedView
        h0 == ResizeTarget(r.height, v.cell_height, v.view_height)
    IN  IF r.width.unit = "Auto"
        THEN (InsertedSelf.width * h0) \div InsertedSelf.height
        ELSE ResizeTarget(r.width, v.cell_width, v.view_width)

ComputedHeight ==
    LET r == InsertedSelf.resize
        v == InsertedView
    IN  IF r.height.unit = "Auto"
        THEN (InsertedSelf.height * ComputedWidth) \div InsertedSelf.width
        ELSE ResizeTarget(r.height, v.cell_height, v.view_height)

\* C25: whenever the target width or height resized() computes is zero,
\* from a Cells, Pixels or WindowPercent parameter or from an Auto side
\* derived from the other side, resized() returns None and nothing is
\* pushed to the pending queue.
C25_ZeroAxisFails ==
    (Effective /\ (ComputedWidth = 0 \/ ComputedHeight = 0)) =>
        /\ ~InsertedResult.some
        /\ pending = << >>

\* C26: every graphic resized() returns, and so every graphic the pending
\* queue receives from it, is at most MAX_GRAPHIC_DIMENSIONS pixels wide
\* and high.
C26_ResizedWithinLimit ==
    /\ (Inserted /\ InsertedResult.some) =>
          /\ InsertedResult.data.width <= MAX_GRAPHIC_DIMENSIONS
          /\ InsertedResult.data.height <= MAX_GRAPHIC_DIMENSIONS
    /\ \A i \in DOMAIN pending :
          /\ pending[i].width <= MAX_GRAPHIC_DIMENSIONS
          /\ pending[i].height <= MAX_GRAPHIC_DIMENSIONS

\* ------------------------------------------------------------------------
\* The Render command.

IsRender(command) == command.kind = "Render"

\* The Render commands of a batch.
RenderCommands(value) == SelectSeq(value.commands, IsRender)

\* The regions render_commands is to draw: top line in visible_range,
\* bottom line not above the first line of the display.
Qualifying(att, base, screen_lines, offset) ==
    {k \in DOMAIN att :
        /\ base - ROWS_PER_GRAPHIC - offset <= k
        /\ k <= base + screen_lines - offset
        /\ att[k].bottom >= base - offset}

\* C27: a batch holds at most one Render command; it has one quad of 6
\* vertices for each region whose top line is in visible_range and whose
\* bottom line is not above the first line of the display
\* (base_position - display_offset), in ascending order of the top lines;
\* there is no Render command when no region qualifies.
C27_RenderQuads ==
    pc = "prepared" =>
        LET q     == SortedSeq(Qualifying(attachments, base_position,
                                          size_info.screen_lines, display_offset))
            shown == RenderCommands(result)
        IN  /\ Len(shown) <= 1
            /\ (Len(shown) = 0) <=> (q = << >>)
            /\ Len(shown) = 1 =>
                  LET v == shown[1].data.vertices
                  IN  /\ Len(v) = 6 * Len(q)
                      /\ \A i \in DOMAIN q : \A j \in 1..6 :
                            LET x == v[6 * (i - 1) + j]
                            IN  /\ x.graphics_line = q[i]
                                /\ x.texture_id = attachments[q[i]].texture
                                /\ x.sides = Sides[j]
                                /\ x.column = attachments[q[i]].column
                                /\ x.width = attachments[q[i]].width
                                /\ x.height = attachments[q[i]].height

\* A display scrolled back by one line shows one of two regions: the other
\* one ends above the first line of the display.
C27_Witness ==
    /\ pc = "prepared"
    /\ display_offset = 1
    /\ Cardinality(DOMAIN attachments) = 2
    /\ Len(RenderCommands(result)) = 1
    /\ Len(RenderCommands(result)[1].data.vertices) = 6
    /\ \E k \in DOMAIN attachments : attachments[k].bottom < base_position - display_offset

\* The region at key k has a line among the lines of the display.
Visible(att, k, base, screen_lines, offset) ==
    /\ k <= base - offset + screen_lines - 1
    /\ att[k].bottom >= base - offset

\* The top lines of the quads of a batch.
QuadLines(value) ==
    {RenderCommands(value)[n].data.vertices[i].graphics_line :
        n \in DOMAIN RenderCommands(value),
        i \in IF RenderCommands(value) = << >> THEN {}
              ELSE DOMAIN RenderCommands(value)[1].data.vertices}

\* C28: every region with a line among the lines of the display
\* (base_position - display_offset and the screen_lines - 1 lines below)
\* has a quad in the Render command of prepare(), tall regions that start
\* above the display included, and every quad is the quad of such a region.
C28_VisibleRegionsRendered ==
    pc = "prepared" =>
        /\ \A k \in DOMAIN attachments :
              Visible(attachments, k, base_position, size_info.screen_lines,
                      display_offset)
              => k \in QuadLines(result)
        /\ \A l \in QuadLines(result) :
              /\ l \in DOMAIN attachments
              /\ Visible(attachments, l, base_position, size_info.screen_lines,
                         display_offset)

\* ------------------------------------------------------------------------
\* The surfaces of attach_graphics.

\* C29: the surfaces attach_graphics processes for a graphic are the
\* regions whose lines [top, bottom] intersect the lines of the graphic,
\* from its line to line + ceil(height / cell_height) - 1, in ascending
\* order of their top lines; no intersecting region is missed, whatever
\* its height.
C29_SurfacesAreIntersecting ==
    [][AttachOne =>
          surface_lines(attachments, pending[1], size_info') =
              SortedSeq(IntersectedKeys(attachments, pending[1], size_info'))]_vars

\* ------------------------------------------------------------------------
\* Resize or reuse.

\* The positions of the ResizeTexture commands of a batch whose source is
\* the region `old`.
ResizesOf(value, old) ==
    {i \in DOMAIN value.commands :
        /\ value.commands[i].kind = "ResizeTexture"
        /\ value.commands[i].source = old}

\* C30: for each region a graphic intersects, attach_graphics replaces the
\* texture of the region (one ResizeTexture from it to a new texture)
\* exactly when the left column of the region is right of the left column
\* of the graphic, or its right side in pixels is left of the right side of
\* the graphic, or its height in pixels is not a multiple of the cell
\* height; otherwise no ResizeTexture is emitted for it and its entry stays
\* as it is.
C30_ResizeOrReuse ==
    [][AttachOne =>
          \A k \in IntersectedKeys(attachments, pending[1], size_info') :
              LET g       == pending[1]
                  old     == attachments[k]
                  cw      == size_info'.cell_width
                  replace == \/ old.column > g.column
                             \/ cw * old.column + old.width < cw * g.column + g.width
                             \/ old.height % size_info'.cell_height # 0
                  resizes == ResizesOf(result', old)
              IN  IF replace
                  THEN /\ Cardinality(resizes) = 1
                       /\ \A i \in resizes :
                             /\ result'.commands[i].target_texture >= next_texture
                             /\ result'.commands[i].target_texture < next_texture'
                  ELSE /\ resizes = {}
                       /\ attachments'[k] = old]_vars

\* ------------------------------------------------------------------------
\* The region a resize leaves.

\* C31: when attach_graphics replaces a region at key k for a graphic, the
\* new region has the same top line k and the same bottom line, its left
\* column is the smaller of both left columns, its width in pixels is the
\* larger right side minus the left side of that column, its height is
\* (bottom - k + 1) * cell_height of the call; the ResizeTexture command has
\* the old region as source, the pixel distance between the old left column
\* and the new one as source_offset, and the width and height of the new
\* region; the texture of the old region is no longer in the attachments.
C31_ResizedRegion ==
    [][AttachOne =>
          \A k \in DOMAIN attachments :
              \A i \in ResizesOf(result', attachments[k]) :
                  LET g     == pending[1]
                      old   == attachments[k]
                      cw    == size_info'.cell_width
                      ch    == size_info'.cell_height
                      c     == result'.commands[i]
                      left  == IF old.column <= g.column THEN old.column ELSE g.column
                      oright == cw * old.column + old.width
                      gright == cw * g.column + g.width
                      right == IF oright >= gright THEN oright ELSE gright
                  IN  /\ k \in DOMAIN attachments'
                      /\ attachments'[k] =
                            GraphicItem(c.target_texture, left, old.bottom, ch,
                                        right - cw * left, (old.bottom - k + 1) * ch)
                      /\ c.target_texture >= next_texture
                      /\ c.target_texture < next_texture'
                      /\ c.source_offset = (old.column - left) * cw
                      /\ c.width = right - cw * left
                      /\ c.height = (old.bottom - k + 1) * ch
                      /\ old.texture \notin IndexTextures(attachments')]_vars

\* ------------------------------------------------------------------------
\* The order of the commands of one graphic.

\* The values new_graphic.line takes during the loop over the surfaces, in
\* order: the top line of the surface after a split (prepare.rs:92), the
\* line below the surface after a blit that left pixel rows (prepare.rs:198).
RECURSIVE CurrentRows(_, _, _, _, _)
CurrentRows(st, lines, si, debug, img) ==
    IF lines = << >> \/ st.status # "run" THEN << >>
    ELSE LET splits == Head(lines) - st.ng.line > 0
             after  == AttachSurface(st, Head(lines), si, debug, img)
             split  == UpperSplit(st, Head(lines), si, debug, img)
         IN  (IF splits /\ split.status = "run" THEN << split.ng.line >> ELSE << >>)
             \o (IF after.status = "run" THEN << after.ng.line >> ELSE << >>)
             \o CurrentRows(after, Tail(lines), si, debug, img)

\* The rows of the call attach_graphics(new_graphic) on the attachments att.
RowsOf(att, next, new_graphic, si) ==
    CurrentRows([att |-> att, cmds |-> << >>, origin |-> << >>, next |-> next,
                 ng |-> new_graphic, status |-> "run"],
                surface_lines(att, new_graphic, si), si, FALSE, 1)

\* The line of the grid a command of attach_graphics works on: the line of
\* the data of an InitTexture, the top line of the region that holds the
\* target of a ResizeTexture or a BlitGraphic plus, for a BlitGraphic, the
\* lines offset_y stands for.
CommandLines(command, att, si) ==
    CASE command.kind = "InitTexture" -> {command.data.line}
      [] command.kind = "ResizeTexture" ->
            {k \in DOMAIN att : att[k].texture = command.target_texture}
      [] command.kind = "BlitGraphic" ->
            {k + (command.offset_y \div si.cell_height) :
                k \in {key \in DOMAIN att : att[key].texture = command.texture}}

\* C32: the commands emitted for one graphic go down the grid: the line of
\* each InitTexture and BlitGraphic is below the line of the one before,
\* the InitTexture of the lines above a region comes before the
\* ResizeTexture and the BlitGraphic of that region, every ResizeTexture is
\* immediately followed by the BlitGraphic onto its target texture, and
\* the current line of the graphic only increases.
C32_AscendingRows ==
    [][AttachOne =>
          LET g    == pending[1]
              si   == size_info'
              cmds == AttachCommands(result')
              rows == RowsOf(attachments, next_texture, g, si)
          IN  /\ \A i, j \in DOMAIN cmds :
                    (i < j /\ IsPiece(cmds[i]) /\ IsPiece(cmds[j])) =>
                        \A a \in CommandLines(cmds[i], attachments', si) :
                            \A b \in CommandLines(cmds[j], attachments', si) : a < b
              /\ \A i, j \in DOMAIN cmds :
                    (cmds[i].kind = "InitTexture" /\ cmds[j].kind # "InitTexture") =>
                        \A a \in CommandLines(cmds[i], attachments', si) :
                            \A b \in CommandLines(cmds[j], attachments', si) :
                                a < b => i < j
              /\ \A i \in DOMAIN cmds :
                    cmds[i].kind = "ResizeTexture" =>
                        /\ i < Len(cmds)
                        /\ cmds[i + 1].kind = "BlitGraphic"
                        /\ cmds[i + 1].texture = cmds[i].target_texture
              /\ \A n \in DOMAIN rows :
                    rows[n] > (IF n = 1 THEN g.line ELSE rows[n - 1])]_vars

\* ------------------------------------------------------------------------
\* SpecStale: the font size changes while graphics are on the grid, so the
\* cell height of a prepare() call is not the one the regions were attached
\* with; a graphic is then placed on the lower lines of a region.

\* Graphics read from the PTY in one run of SpecStale.
MaxStaleGraphics == 3

StaleGraphics ==
    { Graphic(0, 0, 2, 8, "RGB"),       \* 4 lines of 2 pixels, 2 lines of 4
      Graphic(3, 0, 2, 4, "RGB"),       \* the last of these lines
      Graphic(1, 0, 2, 6, "RGBA"),      \* 3 lines of 2 pixels, 1.5 of 4
      Graphic(0, 0, 2, 4, "RGB"),       \* 2 lines of 2 pixels, 1 of 4
      Graphic(0, 0, 4, 8, "RGB") }      \* wider than the others

StaleSizeInfos == {SizeInfo(2, 2, 6), SizeInfo(2, 4, 6)}

NextStale ==
    \/ Enqueue(StaleGraphics, MaxStaleGraphics)
    \/ RendererLock
    \/ Prepare(StaleSizeInfos, DisplayOffsets)
    \/ RendererUnlock
    \/ Draw

SpecStale == Init /\ [][NextStale]_vars

\* ------------------------------------------------------------------------
\* The BlitGraphic commands.

\* For each surface whose blit is reached, in order: its key, the line and
\* the height of new_graphic when the blit starts (prepare.rs:187), and the
\* line, the height and the status of the call when the iteration ends.
RECURSIVE BlitStates(_, _, _, _, _)
BlitStates(st, lines, si, debug, img) ==
    IF lines = << >> \/ st.status # "run" THEN << >>
    ELSE LET split == IF Head(lines) - st.ng.line > 0
                      THEN UpperSplit(st, Head(lines), si, debug, img)
                      ELSE st
             after == AttachSurface(st, Head(lines), si, debug, img)
         IN  (IF split.status = "run" /\ after.status # "panic"
              THEN << [key |-> Head(lines),
                       line |-> split.ng.line, height |-> split.ng.height,
                       after_line |-> after.ng.line,
                       after_height |-> after.ng.height,
                       status |-> after.status] >>
              ELSE << >>)
             \o BlitStates(after, Tail(lines), si, debug, img)

\* The blits of the call attach_graphics(new_graphic) on the attachments att.
BlitsOf(att, next, new_graphic, si) ==
    BlitStates([att |-> att, cmds |-> << >>, origin |-> << >>, next |-> next,
                ng |-> new_graphic, status |-> "run"],
               surface_lines(att, new_graphic, si), si, FALSE, 1)

IsBlit(command) == command.kind = "BlitGraphic"

\* C33: each BlitGraphic has offset_x = (column of the graphic - column of
\* the target region) * cell_width, the column of the region being the one
\* a resize left; offset_y = (current line of the graphic - top line of
\* the region) * cell_height; and the smaller of the pixel rows the graphic
\* has left and the height of the region minus offset_y as height.  When
\* the graphic has pixel rows left after the blit, the call goes on with
\* the line below the region as current line; when it has none, the
\* BlitGraphic is the last command of the graphic.
C33_BlitGeometry ==
    [][AttachOne =>
          LET g      == pending[1]
              si     == size_info'
              cmds   == AttachCommands(result')
              blits  == SelectSeq(cmds, IsBlit)
              states == BlitsOf(attachments, next_texture, g, si)
          IN  /\ Len(blits) = Len(states)
              /\ \A n \in DOMAIN blits :
                    LET c      == blits[n]
                        s      == states[n]
                        region == attachments'[s.key]
                        room   == region.height - c.offset_y
                    IN  /\ s.key \in DOMAIN attachments'
                        /\ c.texture = region.texture
                        /\ c.offset_x = (g.column - region.column) * si.cell_width
                        /\ c.offset_y = (s.line - s.key) * si.cell_height
                        /\ c.height = (IF s.height <= room THEN s.height ELSE room)
                        /\ c.width = g.width
                        /\ IF s.height > c.height
                           THEN /\ s.status = "run"
                                /\ s.after_line = region.bottom + 1
                                /\ s.after_height = s.height - c.height
                           ELSE /\ s.status = "ret"
                                /\ n = Len(blits)
                                /\ cmds[Len(cmds)] = c]_vars

\* ------------------------------------------------------------------------
\* The lines of a region.

\* C34: every region of the attachments spans at least one line: its key
\* (the top line) is not below its bottom line, after any sequence of
\* operations, the cell height changing between prepare() calls.
C34_TopNotBelowBottom ==
    \A k \in DOMAIN attachments : k <= attachments[k].bottom

\* ------------------------------------------------------------------------
\* The height of a region.

MakersOf(cmds, t) ==
    {i \in DOMAIN cmds :
        \/ cmds[i].kind = "InitTexture" /\ cmds[i].texture = t
        \/ cmds[i].kind = "ResizeTexture" /\ cmds[i].target_texture = t}

\* Every region the graphic g intersects has as many pixel rows as its lines
\* have at the cell height of the call.
AlignedSurfaces(att, g, si) ==
    \A k \in IntersectedKeys(att, g, si) :
        att[k].height = (att[k].bottom - k + 1) * si.cell_height

RECURSIVE SplitOccupied(_, _, _, _)
SplitOccupied(st, lines, si, img) ==
    IF lines = << >> \/ st.status # "run" THEN FALSE
    ELSE LET ng     == st.ng
             height == (Head(lines) - ng.line) * si.cell_height
             at     == height * ng.width * bytes_per_pixel(ng.color_type)
         IN  \/ /\ Head(lines) - ng.line > 0
                /\ at <= ng.pixels
                /\ ng.line \in DOMAIN st.att
             \/ SplitOccupied(AttachSurface(st, Head(lines), si, FALSE, img),
                              Tail(lines), si, img)

\* attach_graphics(new_graphic) calls graphics.attach on an occupied line:
\* in the loop, or for the remainder (prepare.rs:237).  The attach of a
\* resized surface (prepare.rs:173) follows the removal of that surface.
AttachOccupied(st0, si, new_graphic, img) ==
    LET st     == [st0 EXCEPT !.ng = new_graphic, !.status = "run"]
        lines  == surface_lines(st.att, new_graphic, si)
        looped == AttachSurfaces(st, lines, si, FALSE, img)
    IN  \/ SplitOccupied(st, lines, si, img)
        \/ /\ looped.status = "run"
           /\ looped.ng.height > 0
           /\ looped.ng.line \in DOMAIN looped.att

\* The same for the graphics datas[i], datas[i + 1], .. of a prepare() call.
RECURSIVE AnyAttachOccupied(_, _, _, _)
AnyAttachOccupied(st, datas, i, si) ==
    IF i > Len(datas) \/ st.status = "panic" THEN FALSE
    ELSE \/ AttachOccupied(st, si, datas[i], i)
         \/ AnyAttachOccupied(attach_graphics(st, si, datas[i], FALSE, i),
                              datas, i + 1, si)

\* C36: attach_graphics never calls Graphics::attach(top, item) while a
\* region is attached at top, for the lines above a surface, a resized
\* surface or the remainder, after any sequence of enqueue, clear,
\* clear_range, move_base_position and prepare calls with any cell size.
C36_NoDoubleAttach ==
    [][PrepareStep =>
          ~AnyAttachOccupied([att |-> attachments, cmds |-> << >>, origin |-> << >>,
                              next |-> next_texture, ng |-> << >>, status |-> "run"],
                             pending, 1, size_info')]_vars

\* ------------------------------------------------------------------------
\* The bounds of a blit.

\* The sizes texture t was created with: by the InitTexture or the
\* ResizeTexture of the batch, or, for the texture of a region attached
\* before, the size its region records.
TextureSizes(cmds, att, t) ==
    {[width |-> cmds[i].data.width, height |-> cmds[i].data.height] :
        i \in {j \in DOMAIN cmds :
                  cmds[j].kind = "InitTexture" /\ cmds[j].texture = t}}
    \cup
    {[width |-> cmds[i].width, height |-> cmds[i].height] :
        i \in {j \in DOMAIN cmds :
                  cmds[j].kind = "ResizeTexture" /\ cmds[j].target_texture = t}}
    \cup
    {[width |-> att[k].width, height |-> att[k].height] :
        k \in {key \in DOMAIN att : att[key].texture = t}}

\* C37: every BlitGraphic lies inside its target texture, as the InitTexture
\* or ResizeTexture that created the texture sized it: offset_x + width is
\* at most the width of the texture and offset_y + height at most its
\* height (so the height of the surface minus offset_y is not negative),
\* after any sequence of operations, the cell size changing between
\* prepare() calls.
C37_BlitInsideTexture ==
    [][PrepareStep =>
          \A i \in DOMAIN result'.commands :
              LET c == result'.commands[i]
              IN  c.kind = "BlitGraphic" =>
                      LET sizes == TextureSizes(result'.commands, attachments, c.texture)
                      IN  /\ sizes # {}
                          /\ \A s \in sizes :
                                /\ c.offset_x + c.width <= s.width
                                /\ c.offset_y <= s.height
                                /\ c.offset_y + c.height <= s.height]_vars

\* ------------------------------------------------------------------------
\* The PTY reader between prepare() and draw().

\* A step of the PTY reader, and the draw() of the batch of the last
\* prepare().
ReaderStep == last_op' \in {"enqueue", "clear", "clear_range", "move_base_position"}

DrawStep == pc = "draw" /\ pc' = "idle"

\* The textures the commands of a batch read or write: the targets of the
\* blits, the sources of the resizes, the textures of the vertices.
UsedTextures(commands) ==
    {commands[i].texture :
        i \in {j \in DOMAIN commands : commands[j].kind = "BlitGraphic"}}
    \cup ResizeSources(commands)
    \cup UNION {{commands[i].data.vertices[v].texture_id :
                    v \in DOMAIN commands[i].data.vertices} :
                i \in {j \in DOMAIN commands : commands[j].kind = "Render"}}

\* C38: while a batch waits for draw(), the PTY reader may run enqueue,
\* clear, clear_range and move_base_position.  Such a step leaves the batch
\* as it is, and a texture it moves to the removed queue has not been
\* released and is released by no command of the waiting batch.  draw()
\* of the batch uses no texture that was released before or earlier in the
\* batch, releases no texture twice, and releases no texture of the
\* removed queue: those are left to the batch of a later prepare().
C38_ReaderBetweenPrepareAndDraw ==
    [][/\ (pc = "draw" /\ ReaderStep) =>
             /\ result' = result
             /\ gl_textures' = gl_textures /\ gl_released' = gl_released
             /\ \A t \in SeqTextures(removed') \ SeqTextures(removed) :
                   /\ t \notin gl_released
                   /\ Count(BatchReleases(result.commands), t) = 0
       /\ DrawStep =>
             /\ ~gl_fault => ~gl_fault'
             /\ UsedTextures(result.commands) \cap gl_released = {}
             /\ SeqTextures(removed) \cap gl_released' = {}]_vars

\* The reader cleared the grid while a batch that uses the textures of the
\* cleared regions waits for draw().
C38_Witness ==
    /\ pc = "draw"
    /\ last_op \in {"clear", "clear_range", "move_base_position"}
    /\ SeqTextures(removed) \cap UsedTextures(result.commands) # {}
    /\ gl_released # {}

\* ------------------------------------------------------------------------
\* The OSC 1337 parser (osc1337.rs).  A &str is a sequence of one-character
\* strings; Option<&str> is << >> for None and <<value>> for Some(value);
\* a HashMap<&str, &str> is a function from the keys it holds.

Digits == {"0", "1", "2", "3", "4", "5", "6", "7", "8", "9"}

DigitValue(c) ==
    CASE c = "0" -> 0 [] c = "1" -> 1 [] c = "2" -> 2 [] c = "3" -> 3
      [] c = "4" -> 4 [] c = "5" -> 5 [] c = "6" -> 6 [] c = "7" -> 7
      [] c = "8" -> 8 [] c = "9" -> 9

\* u32::MAX, 4294967295, in decimal digits.
U32_MAX_DIGITS == <<"4", "2", "9", "4", "9", "6", "7", "2", "9", "5">>

RECURSIVE StripZeros(_)
\* The digits without the leading zeros, which add nothing to the value.
StripZeros(number) ==
    IF Len(number) > 1 /\ Head(number) = "0" THEN StripZeros(Tail(number))
    ELSE number

RECURSIVE DigitsAbove(_, _)
\* For two sequences of digits of one length: a denotes more than b.
DigitsAbove(a, b) ==
    IF a = << >> THEN FALSE
    ELSE IF Head(a) # Head(b) THEN DigitValue(Head(a)) > DigitValue(Head(b))
    ELSE DigitsAbove(Tail(a), Tail(b))

RECURSIVE DecimalValue(_)
\* The number a sequence of digits denotes.
DecimalValue(number) ==
    IF number = << >> THEN 0
    ELSE 10 * DecimalValue(SubSeq(number, 1, Len(number) - 1))
         + DigitValue(number[Len(number)])

\* Result<u32, ParseIntError>.
Ok(n) == [ok |-> TRUE, n |-> n]

Err == [ok |-> FALSE, n |-> 0]

\* str::parse::<u32> (called at lines 114 and 117): an optional "+", then
\* one digit at least, and a value of u32::MAX at most.
parse_u32(number) ==
    LET body   == IF number # << >> /\ Head(number) = "+" THEN Tail(number)
                  ELSE number
        digits == StripZeros(body)
    IN  IF body = << >> THEN Err                                   \* Empty
        ELSE IF \E i \in DOMAIN body : body[i] \notin Digits
        THEN Err                                                   \* InvalidDigit
        ELSE IF \/ Len(digits) > Len(U32_MAX_DIGITS)
                \/ /\ Len(digits) = Len(U32_MAX_DIGITS)
                   /\ DigitsAbove(digits, U32_MAX_DIGITS)
        THEN Err                                                   \* PosOverflow
        ELSE Ok(DecimalValue(digits))

\* Line 111: Option<usize>, the position (from 0) of the first byte that is
\* not a digit.
first_nondigit(value) ==
    LET nondigits == {i \in DOMAIN value : value[i] \notin Digits}
    IN  IF nondigits = {} THEN << >>
        ELSE <<(CHOOSE i \in nondigits : \A j \in nondigits : i <= j) - 1>>

\* Option<ResizeParameter>::None.
NoParameter == [unit |-> "None", n |-> 0]

\* A faulty parse: the unit "px" is dropped, the number counts cells.
parse_px_as_cells(value) ==
    IF value = << >> \/ value = <<<<"a", "u", "t", "o">>>> THEN Auto
    ELSE LET v        == value[1]
             position == first_nondigit(v)
         IN  IF position = << >>
             THEN IF parse_u32(v).ok THEN Cells(parse_u32(v).n) ELSE NoParameter
             ELSE LET number == SubSeq(v, 1, position[1])
                      unit   == SubSeq(v, position[1] + 1, Len(v))
                      n      == parse_u32(number)
                  IN  IF n.ok /\ unit = <<"%">> THEN WindowPercent(n.n)
                      ELSE IF n.ok /\ unit = <<"p", "x">> THEN Cells(n.n)
                      ELSE NoParameter

\* Lines 103-122: the resize parameter of one axis.
parse(value) ==
    IF value = << >> \/ value = <<<<"a", "u", "t", "o">>>> THEN Auto   \* 105
    ELSE LET v        == value[1]
             position == first_nondigit(v)
         IN  IF position = << >>                                       \* 114
             THEN IF parse_u32(v).ok THEN Cells(parse_u32(v).n) ELSE NoParameter
             ELSE LET number == SubSeq(v, 1, position[1])              \* 113
                      unit   == SubSeq(v, position[1] + 1, Len(v))
                      n      == parse_u32(number)
                  IN  IF n.ok /\ unit = <<"%">> THEN WindowPercent(n.n)
                      ELSE IF n.ok /\ unit = <<"p", "x">> THEN Pixels(n.n)
                      ELSE NoParameter

\* HashMap::get.
get(params, key) == IF key \in DOMAIN params THEN <<params[key]>> ELSE << >>

\* Lines 102-130: Option<ResizeCommand> from the parameters of the command.
resize_param(params) ==
    LET width  == parse(get(params, "width"))
        height == parse(get(params, "height"))
        preserve_aspect_ratio == get(params, "preserveAspectRatio") # <<<<"0">>>>
    IN  IF width = NoParameter THEN NoResize                           \* 124
        ELSE IF height = NoParameter THEN NoResize                     \* 125
        ELSE ResizeCommand(width, height, preserve_aspect_ratio)

\* parse() after param_values found inline=1 and the contents were decoded
\* to an image (lines 38-40); the graphic is then resized and, unless
\* resized() returns None, pushed to `pending` as in Insert.  last_args
\* keeps the parameters, the graphic, the geometry and the value resized()
\* returned.
Osc1337(Params, Images, Views, max_graphics) ==
    /\ ReaderLocked
    /\ enqueued < max_graphics
    /\ enqueued' = enqueued + 1
    /\ \E params \in Params, image \in Images, view \in Views :
          LET graphics == from_dynamic_image(0, 0, image[1], image[2], image[3],
                                             resize_param(params))
          IN  \E r \in resized(graphics, view.cell_width, view.cell_height,
                               view.view_width, view.view_height) :
                  /\ pending' =
                        IF r.some
                        THEN Append(pending,
                                [column |-> r.data.column,
                                 line |-> GraphicsLine(base_position, r.data.line),
                                 width |-> r.data.width, height |-> r.data.height,
                                 color_type |-> r.data.color_type,
                                 pixels |-> r.data.pixels])
                        ELSE pending
                  /\ last_args' = <<params, graphics, view, r>>
    /\ last_op' = "osc1337"
    /\ UNCHANGED <<base_position, attachments, removed, sixel_shared_palette, panicked>>
    /\ UNCHANGED renderer_vars

\* ------------------------------------------------------------------------
\* SpecOsc: graphics of 10x10 pixels are read from OSC 1337 commands; cells
\* of 2x4 pixels in a view of 50x40 pixels.

\* At most MaxOsc commands are read in one run of SpecOsc.
MaxOsc == 1

\* The values of `width` and `height`: the ones of the test resize_params
\* (lines 176-178), a number with leading zeros, the empty string, a number
\* above u32::MAX, units the parser does not know, a unit with no number
\* and text.
OscAxisValues ==
    { <<"a", "u", "t", "o">>, <<"5", "0", "%">>,
      <<"1", "0">>, <<"2", "0">>,
      <<"1", "0", "%">>, <<"5", "0", "p", "x">>,
      <<"0", "0", "7">>, << >>,
      <<"4", "2", "9", "4", "9", "6", "7", "2", "9", "6">>,
      <<"5", "e", "m">>, <<"1", "0", "p", "x", "x">>, <<"p", "x">>,
      <<"A", "u", "t", "o">>, <<"a", "b", "c">> }

OscRatioValues == { <<"0">>, <<"1">>, <<"0", "0">> }

\* The map with the given Option<&str> under each of the three keys.
OscParamMap(width, height, ratio) ==
    LET value == [k \in {"width", "height", "preserveAspectRatio"} |->
                    CASE k = "width" -> width
                      [] k = "height" -> height
                      [] OTHER -> ratio]
    IN  [k \in {k \in DOMAIN value : value[k] # << >>} |-> value[k][1]]

OscParams ==
    { OscParamMap(w, h, p) :
        w \in {<< >>} \cup {<<v>> : v \in OscAxisValues},
        h \in {<< >>} \cup {<<v>> : v \in OscAxisValues},
        p \in {<< >>} \cup {<<v>> : v \in OscRatioValues} }

OscImages == {<<"RGB", 10, 10>>}

NextOsc ==
    \/ Osc1337(OscParams, OscImages, ResizedViews, MaxOsc)
    \/ RendererLock
    \/ Prepare(AttachSizeInfos, DisplayOffsets)
    \/ RendererUnlock
    \/ Draw

SpecOsc == Init /\ [][NextOsc]_vars

\* ------------------------------------------------------------------------
\* Claims on resize_param.  In a state reached by Osc1337, last_args is the
\* parameters, the graphic parse() returned, the geometry and the value
\* resized() returned.

OscParsed == last_op = "osc1337"

OscResize == last_args[2].resize

\* The digits a value starts with, and what follows them.
AxisNumber(v) ==
    SubSeq(v, 1, Cardinality({k \in DOMAIN v : \A j \in 1..k : v[j] \in Digits}))

AxisUnit(v) == SubSeq(v, Len(AxisNumber(v)) + 1, Len(v))

\* The form of a value as the documentation of resize_param lists them:
\* "Auto" for auto or a missing parameter, "Cells" for N, "Pixels" for Npx,
\* "WindowPercent" for N%, "other" for the rest.
AxisForm(value) ==
    IF value = << >> \/ value = <<<<"a", "u", "t", "o">>>> THEN "Auto"
    ELSE IF AxisNumber(value[1]) = << >> THEN "other"
    ELSE CASE AxisUnit(value[1]) = << >>         -> "Cells"
           [] AxisUnit(value[1]) = <<"p", "x">>  -> "Pixels"
           [] AxisUnit(value[1]) = <<"%">>       -> "WindowPercent"
           [] OTHER                              -> "other"

\* The number of a value fits in 32 bits.
AxisFits(value) ==
    LET digits == StripZeros(AxisNumber(value[1]))
    IN  \/ Len(digits) < Len(U32_MAX_DIGITS)
        \/ Len(digits) = Len(U32_MAX_DIGITS) /\ ~DigitsAbove(digits, U32_MAX_DIGITS)

\* The form of a value, where a number that does not fit in 32 bits is
\* "other" too.
AxisFormU32(value) ==
    IF AxisForm(value) \in {"Auto", "other"} THEN AxisForm(value)
    ELSE IF AxisFits(value) THEN AxisForm(value)
    ELSE "other"

\* The parameter is the one of the form and the number of the value.
AxisParsed(value, form, param) ==
    /\ param.unit = form
    /\ form # "Auto" => param.n = DecimalValue(StripZeros(AxisNumber(value[1])))

\* C39 as stated: per axis a plain number N gives Cells(N), "Npx" gives
\* Pixels(N), "N%" gives WindowPercent(N), "auto" or a missing parameter
\* gives Auto; any other unit or a non-numeric value makes resize_param
\* return None; preserve_aspect_ratio is true unless preserveAspectRatio is
\* "0".
C39_ResizeParam ==
    OscParsed =>
        LET params == last_args[1]
            width  == get(params, "width")
            height == get(params, "height")
        IN  IF AxisForm(width) = "other" \/ AxisForm(height) = "other"
            THEN OscResize = NoResize
            ELSE /\ OscResize.is_some
                 /\ AxisParsed(width, AxisForm(width), OscResize.width)
                 /\ AxisParsed(height, AxisForm(height), OscResize.height)
                 /\ OscResize.preserve_aspect_ratio
                        = (get(params, "preserveAspectRatio") # <<<<"0">>>>)

\* C39, amended: the same for numbers up to 4294967295; a number above it
\* makes resize_param return None as an unknown unit or a non-numeric value
\* does.
C39_ResizeParamU32 ==
    OscParsed =>
        LET params == last_args[1]
            width  == get(params, "width")
            height == get(params, "height")
        IN  IF AxisFormU32(width) = "other" \/ AxisFormU32(height) = "other"
            THEN OscResize = NoResize
            ELSE /\ OscResize.is_some
                 /\ AxisParsed(width, AxisFormU32(width), OscResize.width)
                 /\ AxisParsed(height, AxisFormU32(height), OscResize.height)
                 /\ OscResize.preserve_aspect_ratio
                        = (get(params, "preserveAspectRatio") # <<<<"0">>>>)

\* width=007, height=50px and preserveAspectRatio=0 were parsed to 7 cells,
\* 50 pixels and no aspect ratio to preserve.
C39_Witness ==
    /\ OscParsed
    /\ get(last_args[1], "width") = <<<<"0", "0", "7">>>>
    /\ get(last_args[1], "height") = <<<<"5", "0", "p", "x">>>>
    /\ get(last_args[1], "preserveAspectRatio") = <<<<"0">>>>
    /\ OscResize = ResizeCommand(Cells(7), Pixels(50), FALSE)

====
